---- MODULE Spec2Model ----
(***************************************************************************)
(* CODECHECK Launch Pad: the GitHub API client (assets/js/github-api.js).  *)
(*                                                                         *)
(* Strings whose characters matter (issue titles, identifiers, label       *)
(* names) are sequences of one-character strings, so that the regular      *)
(* expressions, split('-'), parseInt, toString, padStart and toLowerCase   *)
(* are computed character by character as the JavaScript does.             *)
(***************************************************************************)
EXTENDS Integers, Sequences, FiniteSets, TLC

VARIABLES
    issues,             \* the issue list handed to extractIdentifiers
    pc,                 \* position of the extract/calculate pipeline
    identifiers,        \* extractIdentifiers: the `identifiers` array before de-duplication
    uniqueIdentifiers,  \* extractIdentifiers: the returned array
    currentYear,        \* APP_CONFIG.currentYear
    currentRepository,  \* LaunchPadUI.currentRepository
    nextIdentifier,     \* calculateNextIdentifier: the returned record
    cache,              \* GitHubAPI.cache: cacheKey -> {data, timestamp}
    now,                \* Date.now()
    server,             \* the revision of the remote register the API serves
    calls,              \* the makeRequest invocations, by call id
    fetchCount,         \* network fetches started, per cacheKey
    pagination,         \* getRepositoryIssues: the frame of the current invocation
    stats,              \* calculateStatistics: the returned record
    isLoading,          \* LaunchPadApp.isLoading
    ui,                 \* LaunchPadUI: currentIdentifier, currentStats and what is shown
    loads,              \* the loadNextIdentifier invocations that passed the guard
    lastCall,           \* what the latest loadNextIdentifier call did
    search              \* the roster search field: its timer, the browser's timers, what ran

extractVars == <<issues, pc, identifiers, uniqueIdentifiers, currentYear,
                 currentRepository, nextIdentifier>>
cacheVars == <<cache, now, server, calls, fetchCount>>
loadVars == <<isLoading, ui, loads, lastCall, search>>
appVars == <<pagination, stats, isLoading, ui, loads, lastCall, search>>
vars == <<issues, pc, identifiers, uniqueIdentifiers, currentYear,
          currentRepository, nextIdentifier, cache, now, server, calls, fetchCount,
          pagination, stats, isLoading, ui, loads, lastCall, search>>

(***************************************************************************)
(* Bounds of the model.                                                    *)
(***************************************************************************)
MaxIssues == 2

\* makeRequest invocations in one behaviour
MaxCalls == 2

\* changes of the remote register in one behaviour
MaxRevision == 1

(***************************************************************************)
(* Characters and the JavaScript string primitives.                        *)
(***************************************************************************)
Digits == {"0", "1", "2", "3", "4", "5", "6", "7", "8", "9"}

DigitVal(c) ==
    CASE c = "0" -> 0 [] c = "1" -> 1 [] c = "2" -> 2 [] c = "3" -> 3
      [] c = "4" -> 4 [] c = "5" -> 5 [] c = "6" -> 6 [] c = "7" -> 7
      [] c = "8" -> 8 [] c = "9" -> 9

DigitChar(d) ==
    CASE d = 0 -> "0" [] d = 1 -> "1" [] d = 2 -> "2" [] d = 3 -> "3"
      [] d = 4 -> "4" [] d = 5 -> "5" [] d = 6 -> "6" [] d = 7 -> "7"
      [] d = 8 -> "8" [] d = 9 -> "9"

\* parseInt(s) of a string of decimal digits
RECURSIVE parseInt(_)
parseInt(s) ==
    IF s = <<>> THEN 0
    ELSE 10 * parseInt(SubSeq(s, 1, Len(s) - 1)) + DigitVal(s[Len(s)])

\* n.toString() of a non-negative integer
RECURSIVE toString(_)
toString(n) ==
    IF n < 10 THEN <<DigitChar(n)>>
    ELSE toString(n \div 10) \o <<DigitChar(n % 10)>>

\* s.padStart(width, '0')
RECURSIVE padStart(_, _)
padStart(s, width) ==
    IF Len(s) >= width THEN s ELSE padStart(<<"0">> \o s, width)

\* c.toLowerCase() for the letters that occur in the label names of the model
lowerChar(c) ==
    CASE c = "I" -> "i" [] c = "D" -> "d" [] c = "A" -> "a" [] c = "S" -> "s"
      [] c = "G" -> "g" [] c = "N" -> "n" [] c = "E" -> "e" [] c = "C" -> "c"
      [] OTHER -> c

toLowerCase(s) == [i \in 1..Len(s) |-> lowerChar(s[i])]

\* s.split('-') of an identifier token "YYYY-NNN": <<year string, number string>>
splitId(s) == <<SubSeq(s, 1, 4), SubSeq(s, 6, Len(s))>>

(***************************************************************************)
(* Values of the program.                                                  *)
(***************************************************************************)
\* JavaScript null (highestIdentifier when no identifier exists)
null == <<>>

\* 'id assigned', the label that marks an issue whose identifier counts
idAssigned == <<"i", "d", " ", "a", "s", "s", "i", "g", "n", "e", "d">>

(***************************************************************************)
(* extractIdentifiers                                                      *)
(***************************************************************************)
\* /(\d{4}-\d{3})/ matches title t at position i
idPatternAt(t, i) ==
    /\ i + 7 <= Len(t)
    /\ \A k \in 0..3 : t[i + k] \in Digits
    /\ t[i + 4] = "-"
    /\ \A k \in 5..7 : t[i + k] \in Digits

\* /(\d{4}-\d{3})\/(\d{4}-\d{3})/ matches title t at position i
rangePatternAt(t, i) ==
    /\ i + 16 <= Len(t)
    /\ idPatternAt(t, i)
    /\ t[i + 8] = "/"
    /\ idPatternAt(t, i + 9)

\* [...t.matchAll(rangePattern)] scanning from position i: the matches, left to
\* right and non-overlapping, each as its two groups <<match[1], match[2]>>
RECURSIVE matchAllRange(_, _)
matchAllRange(t, i) ==
    IF i > Len(t) THEN <<>>
    ELSE IF rangePatternAt(t, i)
         THEN << <<SubSeq(t, i, i + 7), SubSeq(t, i + 9, i + 16)>> >>
              \o matchAllRange(t, i + 17)
         ELSE matchAllRange(t, i + 1)

\* [...t.matchAll(identifierPattern)] scanning from position i: each match[1]
RECURSIVE matchAllId(_, _)
matchAllId(t, i) ==
    IF i > Len(t) THEN <<>>
    ELSE IF idPatternAt(t, i)
         THEN <<SubSeq(t, i, i + 7)>> \o matchAllId(t, i + 8)
         ELSE matchAllId(t, i + 1)

\* mutant of hasIdAssignedLabel: the label name only has to contain 'id assigned'
hasLabelContainingIdAssigned(issue) ==
    /\ "labels" \in DOMAIN issue
    /\ \E k \in 1..Len(issue.labels) :
          /\ "name" \in DOMAIN issue.labels[k]
          /\ LET name == toLowerCase(issue.labels[k].name)
             IN  \E p \in 1..Len(name) :
                    /\ p + Len(idAssigned) - 1 <= Len(name)
                    /\ SubSeq(name, p, p + Len(idAssigned) - 1) = idAssigned

\* issues.filter(...): the issue has a label named 'id assigned', ignoring case
hasIdAssignedLabel(issue) ==
    /\ "labels" \in DOMAIN issue
    /\ \E k \in 1..Len(issue.labels) :
          /\ "name" \in DOMAIN issue.labels[k]
          /\ toLowerCase(issue.labels[k].name) = idAssigned

assignedIssues(iss) == SelectSeq(iss, hasIdAssignedLabel)

\* mutant of expandRange: the loop stops before endNumber (num < endNumber)
expandRangeExclusive(issue, match) ==
    LET startId == match[1]
        endId == match[2]
        startYear == splitId(startId)[1]
        startNumberStr == splitId(startId)[2]
        startNumber == parseInt(startNumberStr)
        endNumber == parseInt(splitId(endId)[2])
    IN  IF parseInt(startYear) = parseInt(splitId(endId)[1])
        THEN [k \in 1..(IF endNumber > startNumber THEN endNumber - startNumber ELSE 0) |->
                LET num == startNumber + k - 1
                IN  [full |-> startYear \o <<"-">>
                                \o padStart(toString(num), Len(startNumberStr)),
                     year |-> parseInt(startYear),
                     number |-> num,
                     issueTitle |-> issue.title,
                     issueNumber |-> issue.number,
                     issueUrl |-> issue.html_url,
                     isFromRange |-> TRUE,
                     rangeStart |-> startId,
                     rangeEnd |-> endId]]
        ELSE <<>>

\* the records one range match pushes: the for loop over num
expandRange(issue, match) ==
    LET startId == match[1]
        endId == match[2]
        startYear == splitId(startId)[1]
        startNumberStr == splitId(startId)[2]
        endYear == splitId(endId)[1]
        endNumberStr == splitId(endId)[2]
        startNumber == parseInt(startNumberStr)
        endNumber == parseInt(endNumberStr)
    IN  IF parseInt(startYear) = parseInt(endYear)
        THEN [k \in 1..(IF endNumber >= startNumber
                        THEN endNumber - startNumber + 1 ELSE 0) |->
                LET num == startNumber + k - 1
                    paddedNumber == padStart(toString(num), Len(startNumberStr))
                IN  [full |-> startYear \o <<"-">> \o paddedNumber,
                     year |-> parseInt(startYear),
                     number |-> num,
                     issueTitle |-> issue.title,
                     issueNumber |-> issue.number,
                     issueUrl |-> issue.html_url,
                     isFromRange |-> TRUE,
                     rangeStart |-> startId,
                     rangeEnd |-> endId]]
        ELSE <<>>

\* mutant of isPartOfRange: the range check is left out
isPartOfRangeNever(fullId, rangeMatches) == FALSE

\* rangeMatches.some(...): the identifier lies within one of the title's ranges
isPartOfRange(fullId, rangeMatches) ==
    \E r \in 1..Len(rangeMatches) :
        LET startId == rangeMatches[r][1]
            endId == rangeMatches[r][2]
            startYear == splitId(startId)[1]
            startNumber == parseInt(splitId(startId)[2])
            endNumber == parseInt(splitId(endId)[2])
            year == splitId(fullId)[1]
            number == parseInt(splitId(fullId)[2])
        IN  /\ parseInt(year) = parseInt(startYear)
            /\ number >= startNumber
            /\ number <= endNumber

\* the record a standalone match pushes
singleRecord(issue, fullId) ==
    [full |-> fullId,
     year |-> parseInt(splitId(fullId)[1]),
     number |-> parseInt(splitId(fullId)[2]),
     issueTitle |-> issue.title,
     issueNumber |-> issue.number,
     issueUrl |-> issue.html_url,
     isFromRange |-> FALSE]

RECURSIVE flatten(_)
flatten(ss) == IF ss = <<>> THEN <<>> ELSE Head(ss) \o flatten(Tail(ss))

\* everything one issue pushes: its ranges first, then its standalone matches
issueRecords(issue) ==
    IF "title" \in DOMAIN issue /\ issue.title # <<>>
    THEN LET rangeMatches == matchAllRange(issue.title, 1)
             matches == matchAllId(issue.title, 1)
             fromRanges == flatten([r \in 1..Len(rangeMatches) |->
                                      expandRange(issue, rangeMatches[r])])
             fromSingles == flatten([m \in 1..Len(matches) |->
                                      IF isPartOfRange(matches[m], rangeMatches)
                                      THEN <<>>
                                      ELSE <<singleRecord(issue, matches[m])>>])
         IN  fromRanges \o fromSingles
    ELSE <<>>

\* the `identifiers` array after the forEach over the labelled issues
collectIdentifiers(iss) ==
    LET assigned == assignedIssues(iss)
    IN  flatten([k \in 1..Len(assigned) |-> issueRecords(assigned[k])])

\* mutant of removeDuplicates: a filter that keeps every element
keepDuplicates(arr, index) == SubSeq(arr, index, Len(arr))

\* mutant of removeDuplicates: the last occurrence of a `full` is kept, not the first
RECURSIVE keepLastOccurrence(_, _)
keepLastOccurrence(arr, index) ==
    IF index > Len(arr) THEN <<>>
    ELSE (IF \E j \in (index + 1)..Len(arr) : arr[j].full = arr[index].full
          THEN <<>> ELSE <<arr[index]>>)
         \o keepLastOccurrence(arr, index + 1)

\* mutant of removeDuplicates: records are compared by `number` instead of `full`
RECURSIVE removeDuplicateNumbers(_, _)
removeDuplicateNumbers(arr, index) ==
    IF index > Len(arr) THEN <<>>
    ELSE (IF \E j \in 1..(index - 1) : arr[j].number = arr[index].number
          THEN <<>> ELSE <<arr[index]>>)
         \o removeDuplicateNumbers(arr, index + 1)

\* identifiers.filter((id, index, arr) => arr.findIndex(o => o.full === id.full) === index)
RECURSIVE removeDuplicates(_, _)
removeDuplicates(arr, index) ==
    IF index > Len(arr) THEN <<>>
    ELSE (IF \E j \in 1..(index - 1) : arr[j].full = arr[index].full
          THEN <<>> ELSE <<arr[index]>>)
         \o removeDuplicates(arr, index + 1)

\* mutant of compareIdentifiers: the years are not compared
compareNumbersOnly(a, b) == a.number - b.number

\* the comparator of uniqueIdentifiers.sort: negative, zero or positive
compareIdentifiers(a, b) ==
    IF a.year # b.year THEN a.year - b.year ELSE a.number - b.number

RECURSIVE insertSorted(_, _)
insertSorted(sorted, x) ==
    IF sorted = <<>> THEN <<x>>
    ELSE IF compareIdentifiers(x, Head(sorted)) < 0 THEN <<x>> \o sorted
         ELSE <<Head(sorted)>> \o insertSorted(Tail(sorted), x)

\* arr.sort(compareIdentifiers), a stable sort
RECURSIVE sortIdentifiers(_)
sortIdentifiers(arr) ==
    IF arr = <<>> THEN <<>>
    ELSE insertSorted(sortIdentifiers(SubSeq(arr, 1, Len(arr) - 1)), arr[Len(arr)])

extractIdentifiers(iss) ==
    sortIdentifiers(removeDuplicates(collectIdentifiers(iss), 1))

(***************************************************************************)
(* calculateNextIdentifier                                                 *)
(***************************************************************************)
\* APP_CONFIG.identifierPadding
identifierPadding == 3

\* the starting number of the production register for 2025
productionMinNumber == 28

\* the starting number of every other register and year
defaultMinNumber == 1

\* the year the production starting number applies to
productionMinYear == 2025

\* mutant of formatIdentifier: the number is not padded
formatIdentifierUnpadded(number, year) == toString(year) \o <<"-">> \o toString(number)

\* formatIdentifier(number), in the year `year`
formatIdentifier(number, year) ==
    toString(year) \o <<"-">> \o padStart(toString(number), identifierPadding)

\* mutant of minNumberFor: the production starting number in every year
minNumberForEveryYear(repoConfig, year) ==
    IF repoConfig = "production" THEN productionMinNumber ELSE defaultMinNumber

\* minNumber for the selected repository and the current year
minNumberFor(repoConfig, year) ==
    IF repoConfig = "production" /\ year = productionMinYear
    THEN productionMinNumber
    ELSE defaultMinNumber

\* mutant of mathMax: the first element of the array instead of its maximum
mathMaxFirstElement(numbers) == numbers[1]

\* Math.max(...numbers) of a non-empty array
mathMax(numbers) ==
    CHOOSE m \in {numbers[k] : k \in 1..Len(numbers)} :
        \A k \in 1..Len(numbers) : numbers[k] <= m

\* arr.find(p => p.number = n): the first such element
findByNumber(arr, n) ==
    arr[CHOOSE k \in 1..Len(arr) :
            /\ arr[k].number = n
            /\ \A j \in 1..(k - 1) : arr[j].number # n]

\* mutant of calculateNextIdentifier: the highest identifier is looked up among the
\* identifiers of all years
calculateNextIdentifierAnyYear(ids, year, repoConfig) ==
    LET currentYearIdentifiers == SelectSeq(ids, LAMBDA id : id.year = year)
        currentYearNumbers ==
            [k \in 1..Len(currentYearIdentifiers) |-> currentYearIdentifiers[k].number]
        minNumber == minNumberFor(repoConfig, year)
        some == Len(currentYearNumbers) > 0
        maxNumber == mathMax(currentYearNumbers)
        nextNumber ==
            IF some
            THEN (IF minNumber >= maxNumber + 1 THEN minNumber ELSE maxNumber + 1)
            ELSE minNumber
        highestIdentifier == IF some THEN findByNumber(ids, maxNumber) ELSE null
    IN  [identifier |-> formatIdentifier(nextNumber, year),
         year |-> year,
         number |-> nextNumber,
         isFirstOfYear |-> (nextNumber = minNumber),
         highestIdentifier |-> highestIdentifier]

calculateNextIdentifier(ids, year, repoConfig) ==
    LET currentYearIdentifiers == SelectSeq(ids, LAMBDA id : id.year = year)
        currentYearNumbers ==
            [k \in 1..Len(currentYearIdentifiers) |-> currentYearIdentifiers[k].number]
        minNumber == minNumberFor(repoConfig, year)
        some == Len(currentYearNumbers) > 0
        maxNumber == mathMax(currentYearNumbers)
        nextNumber ==
            IF some
            THEN (IF minNumber >= maxNumber + 1 THEN minNumber ELSE maxNumber + 1)
            ELSE minNumber
        highestIdentifier ==
            IF some THEN findByNumber(currentYearIdentifiers, maxNumber) ELSE null
    IN  [identifier |-> formatIdentifier(nextNumber, year),
         year |-> year,
         number |-> nextNumber,
         isFirstOfYear |-> (nextNumber = minNumber),
         highestIdentifier |-> highestIdentifier]

(***************************************************************************)
(* The inputs of the model: issue titles and label lists.                  *)
(***************************************************************************)
\* "fix 24-1": no identifier: the digit groups are too short
titleNoMatch ==
    <<"f", "i", "x", " ", "2", "4", "-", "1">>

\* "A | 2025-000": one standalone identifier, number 0
titleSingle ==
    <<"A", " ", "|", " ", "2", "0", "2", "5", "-", "0", "0", "0">>

\* "2025-020/2025-031": a same-year range of 12 identifiers
titleRange ==
    <<"2", "0", "2", "5", "-", "0", "2", "0", "/", "2", "0", "2", "5", "-", "0",
    "3", "1">>

\* "2025-020/2025-031, see also 2025-025": a range and a standalone identifier inside it
titleOverlap ==
    <<"2", "0", "2", "5", "-", "0", "2", "0", "/", "2", "0", "2", "5", "-", "0",
    "3", "1", ",", " ", "s", "e", "e", " ", "a", "l", "s", "o", " ", "2", "0",
    "2", "5", "-", "0", "2", "5">>

\* "2024-998/2025-003": a cross-year range
titleCrossYear ==
    <<"2", "0", "2", "4", "-", "9", "9", "8", "/", "2", "0", "2", "5", "-", "0",
    "0", "3">>

\* "2024-001/2025-003 2024-002": a cross-year range and a standalone identifier between its numbers
titleCrossInside ==
    <<"2", "0", "2", "4", "-", "0", "0", "1", "/", "2", "0", "2", "5", "-", "0",
    "0", "3", " ", "2", "0", "2", "4", "-", "0", "0", "2">>

\* "2024-1234": a 4-digit number
titleLongNumber ==
    <<"2", "0", "2", "4", "-", "1", "2", "3", "4">>

\* "12025-004": a 5-digit year
titleLongYear ==
    <<"1", "2", "0", "2", "5", "-", "0", "0", "4">>

\* "2025-004/2025-002": a range whose end is below its start
titleReverse ==
    <<"2", "0", "2", "5", "-", "0", "0", "4", "/", "2", "0", "2", "5", "-", "0",
    "0", "2">>

\* "2025-002 2025-025 2025-002": a gap and a repeated identifier
titleGap ==
    <<"2", "0", "2", "5", "-", "0", "0", "2", " ", "2", "0", "2", "5", "-", "0",
    "2", "5", " ", "2", "0", "2", "5", "-", "0", "0", "2">>

\* "2026-003 2025-027": identifiers of two years, one just below the production floor
titleNextYear ==
    <<"2", "0", "2", "6", "-", "0", "0", "3", " ", "2", "0", "2", "5", "-", "0",
    "2", "7">>

\* "2025-999": the largest 3-digit number
titleMax ==
    <<"2", "0", "2", "5", "-", "9", "9", "9">>

Titles ==
    {titleNoMatch,
     titleSingle,
     titleRange,
     titleOverlap,
     titleCrossYear,
     titleCrossInside,
     titleLongNumber,
     titleLongYear,
     titleReverse,
     titleGap,
     titleNextYear,
     titleMax}

\* a label named 'certificate'
labelCertificate == [name |-> <<"c", "e", "r", "t", "i", "f", "i", "c", "a", "t", "e">>]

\* a label named 'ID Assigned'
labelIdAssignedMixed == [name |-> <<"I", "D", " ", "A", "s", "s", "i", "g", "n", "e", "d">>]

\* a label named 'no id assigned'
labelNoIdAssigned == [name |-> <<"n", "o", " ", "i", "d", " ", "a", "s", "s", "i", "g", "n", "e", "d">>]

\* a label object without a name
labelNoName == [color |-> "ededed"]

\* the label lists an issue of the model may carry; noLabels: no labels field
noLabels == <<[absent |-> TRUE]>>

LabelLists ==
    {<<labelNoName, labelIdAssignedMixed>>,
     <<labelCertificate, labelNoIdAssigned>>,
     noLabels}

\* issue number n with title t and the labels l
MakeIssue(n, t, l) ==
    IF l = noLabels
    THEN [number |-> n, title |-> t, html_url |-> <<"issues", n>>]
    ELSE [number |-> n, title |-> t, html_url |-> <<"issues", n>>, labels |-> l]

Years == {productionMinYear, productionMinYear + 1}

Repositories == {"testing", "production"}

(***************************************************************************)
(* The extract-and-calculate pipeline of loadNextIdentifier.               *)
(***************************************************************************)
\* getRepositoryIssues has not been called
paginationIdle ==
    [pc |-> "idle", run |-> 0, repo |-> "register", page |-> 1, hasMore |-> TRUE,
     issues |-> <<>>, requested |-> <<>>, received |-> <<>>, fetching |-> FALSE]

\* 'needs codechecker'
needsCodechecker == <<"n", "e", "e", "d", "s", " ", "c", "o", "d", "e", "c", "h", "e", "c", "k", "e", "r">>

\* LaunchPadUI after its constructor: no identifier, no statistics, nothing shown,
\* the default labels selected and no codechecker
uiIdle ==
    [currentIdentifier |-> null, currentStats |-> null, loading |-> FALSE,
     error |-> FALSE, results |-> FALSE, buttonDisabled |-> FALSE,
     selectedLabels |-> <<labelCertificate.name, needsCodechecker>>,
     selectedCodecheckers |-> <<>>]

\* the search field after construction: this.searchTimeout = null, no timer is
\* set, nothing was typed and no search ran
searchIdle ==
    [searchTimeout |-> null, timers |-> {}, timerCount |-> 0, clock |-> 0,
     inputs |-> <<>>, performed |-> <<>>]

\* the application after construction: nothing is in flight
AppIdle ==
    /\ pagination = paginationIdle
    /\ stats = null
    /\ isLoading = FALSE
    /\ ui = uiIdle
    /\ loads = <<>>
    /\ lastCall = "none"
    /\ search = searchIdle

CacheIdle ==
    /\ cache = <<>>
    /\ now = 0
    /\ server = 0
    /\ calls = <<>>
    /\ fetchCount = <<>>

\* the pipeline before it runs, for the current years and selected repositories given:
\* the issue list holds up to MaxIssues issues, numbered by position
InitPipeline(years, repositories) ==
    /\ \E n \in 0..MaxIssues :
          \E t \in [1..n -> Titles], l \in [1..n -> LabelLists] :
              issues = [k \in 1..n |-> MakeIssue(k, t[k], l[k])]
    /\ pc = "start"
    /\ identifiers = <<>>
    /\ uniqueIdentifiers = <<>>
    /\ currentYear \in years
    /\ currentRepository \in repositories
    /\ nextIdentifier = null
    /\ CacheIdle
    /\ AppIdle

\* extractIdentifiers reads neither the year nor the repository: the page as loaded
\* in 2025, with the repository the LaunchPadUI constructor selects
InitExtract == InitPipeline({productionMinYear}, {"production"})

\* calculateNextIdentifier in every year and for every repository selection
InitCalculate == InitPipeline(Years, Repositories)

\* const identifiers = this.githubAPI.extractIdentifiers(allIssues)
ExtractIdentifiers ==
    /\ pc = "start"
    /\ identifiers' = collectIdentifiers(issues)
    /\ uniqueIdentifiers' = extractIdentifiers(issues)
    /\ pc' = "extracted"
    /\ UNCHANGED <<issues, currentYear, currentRepository, nextIdentifier>>
    /\ UNCHANGED cacheVars
    /\ UNCHANGED appVars

\* const nextIdentifier = this.githubAPI.calculateNextIdentifier(identifiers)
CalculateNextIdentifier ==
    /\ pc = "extracted"
    /\ nextIdentifier' =
          calculateNextIdentifier(uniqueIdentifiers, currentYear, currentRepository)
    /\ pc' = "calculated"
    /\ UNCHANGED <<issues, identifiers, uniqueIdentifiers, currentYear, currentRepository>>
    /\ UNCHANGED cacheVars
    /\ UNCHANGED appVars

NextExtract == ExtractIdentifiers \/ CalculateNextIdentifier

SpecExtract == InitExtract /\ [][NextExtract]_vars

SpecCalculate == InitCalculate /\ [][NextExtract]_vars

(***************************************************************************)
(* Properties of calculateNextIdentifier and extractIdentifiers.           *)
(***************************************************************************)
\* the numbers of the extracted identifiers of the current year
CurrentYearNumbers ==
    {uniqueIdentifiers[k].number :
        k \in {j \in 1..Len(uniqueIdentifiers) : uniqueIdentifiers[j].year = currentYear}}

SetMax(S) == CHOOSE m \in S : \A x \in S : x <= m

\* the floor the specification gives for a repository and a year
ClaimedFloor == IF currentRepository = "production" /\ currentYear = 2025 THEN 28 ELSE 1

\* C1: the number calculateNextIdentifier returns is max(F, M+1), with M the maximum
\* number among the identifiers of the current year and F the floor of the selected
\* repository and year; it is F when no identifier has the current year; the number
\* is above every existing number of the year, so a gap below M is never filled.
C1_NextIsMaxOfFloorAndSuccessor ==
    pc = "calculated" =>
        IF CurrentYearNumbers = {}
        THEN nextIdentifier.number = ClaimedFloor
        ELSE LET M == SetMax(CurrentYearNumbers)
             IN  /\ nextIdentifier.number =
                        (IF ClaimedFloor >= M + 1 THEN ClaimedFloor ELSE M + 1)
                 /\ \A n \in CurrentYearNumbers : nextIdentifier.number > n

\* C1 witness: the year has identifiers with a gap below the maximum M, and M+1 is
\* returned although a smaller number is free
C1_Witness ==
    /\ pc = "calculated"
    /\ CurrentYearNumbers # {}
    /\ \E g \in 1..SetMax(CurrentYearNumbers) :
          /\ g \notin CurrentYearNumbers
          /\ g >= ClaimedFloor
    /\ nextIdentifier.number = SetMax(CurrentYearNumbers) + 1

\* C2: the floor is 28 exactly for the production repository in 2025 and 1 for every
\* other repository and year: with no identifier of the current year the result is
\* the floor with isFirstOfYear = TRUE, and with a maximum M below the floor the
\* result is the floor and otherwise M+1.
C2_FloorByRepositoryAndYear ==
    pc = "calculated" =>
        LET production2025 == currentRepository = "production" /\ currentYear = 2025
        IN  /\ CurrentYearNumbers = {} =>
                  /\ nextIdentifier.number = (IF production2025 THEN 28 ELSE 1)
                  /\ nextIdentifier.isFirstOfYear = TRUE
            /\ (CurrentYearNumbers # {} /\ SetMax(CurrentYearNumbers) < 27) =>
                  nextIdentifier.number =
                      (IF production2025 THEN 28 ELSE SetMax(CurrentYearNumbers) + 1)
            /\ nextIdentifier.number >= (IF production2025 THEN 28 ELSE 1)

\* C2 witness: production repository, 2025, no identifier of 2025: number 28, first of year
C2_Witness ==
    /\ pc = "calculated"
    /\ currentRepository = "production"
    /\ currentYear = 2025
    /\ CurrentYearNumbers = {}
    /\ nextIdentifier.number = 28
    /\ nextIdentifier.isFirstOfYear = TRUE
    /\ nextIdentifier.identifier = <<"2", "0", "2", "5", "-", "0", "2", "8">>

\* C3: no two records of the list extractIdentifiers returns have the same `full`
C3_UniqueFull ==
    pc = "extracted" =>
        \A i, j \in 1..Len(uniqueIdentifiers) :
            i # j => uniqueIdentifiers[i].full # uniqueIdentifiers[j].full

\* C3 witness: the same `full` was pushed more than once, and one record was kept
C3_Witness ==
    /\ pc = "extracted"
    /\ \E i, j \in 1..Len(identifiers) :
          i # j /\ identifiers[i].full = identifiers[j].full
    /\ Len(uniqueIdentifiers) > 0
    /\ Len(uniqueIdentifiers) < Len(identifiers)

\* the issue carries a label whose name equals "id assigned" when case is ignored
MarkedIssue(issue) ==
    /\ "labels" \in DOMAIN issue
    /\ \E k \in 1..Len(issue.labels) :
          /\ "name" \in DOMAIN issue.labels[k]
          /\ Len(issue.labels[k].name) = Len(idAssigned)
          /\ \A c \in 1..Len(idAssigned) :
                lowerChar(issue.labels[k].name[c]) = idAssigned[c]

\* the year and the number an identifier token "YYYY-NNN" denotes
TokenYear(token) == parseInt(SubSeq(token, 1, 4))
TokenNumber(token) == parseInt(SubSeq(token, 6, 8))

\* the positions of the pushed records that come from issue number n
PushedBy(n) == {x \in 1..Len(identifiers) : identifiers[x].issueNumber = n}

\* how often token e is matched as an identifier in title t
Occurrences(t, e) ==
    Cardinality({m \in 1..Len(matchAllId(t, 1)) : matchAllId(t, 1)[m] = e})

\* C4: a cross-year range token in a labelled issue's title contributes nothing: it
\* is not expanded, and neither endpoint (occurring nowhere else in the title) is
\* emitted as an identifier of that issue.
C4_CrossYearRangeYieldsNothing ==
    pc = "extracted" =>
        \A k \in 1..Len(issues) :
            MarkedIssue(issues[k]) =>
                LET t == issues[k].title
                    ranges == matchAllRange(t, 1)
                IN  \A r \in 1..Len(ranges) :
                        TokenYear(ranges[r][1]) # TokenYear(ranges[r][2]) =>
                            \A e \in {ranges[r][1], ranges[r][2]} :
                                Occurrences(t, e) = 1 =>
                                    \A x \in PushedBy(issues[k].number) :
                                        identifiers[x].full # e

\* C5: only tokens of exactly 4 digits, a hyphen and exactly 3 digits are matched:
\* every standalone identifier stands in its issue's title with no digit directly
\* before it and no digit directly after it.
C5_OnlyExactWidthTokens ==
    pc = "extracted" =>
        \A x \in 1..Len(identifiers) :
            ~identifiers[x].isFromRange =>
                LET t == identifiers[x].issueTitle
                IN  \E p \in 1..Len(t) :
                        /\ p + 7 <= Len(t)
                        /\ SubSeq(t, p, p + 7) = identifiers[x].full
                        /\ p = 1 \/ t[p - 1] \notin Digits
                        /\ p + 7 = Len(t) \/ t[p + 8] \notin Digits

\* the positions of the pushed records that range token <<START, END>> of issue
\* number n accounts for, with number num
RangeRecords(n, range, num) ==
    {x \in PushedBy(n) :
        /\ identifiers[x].isFromRange
        /\ identifiers[x].rangeStart = range[1]
        /\ identifiers[x].rangeEnd = range[2]
        /\ identifiers[x].number = num}

\* C6: a same-year range token START/END in a labelled issue's title yields exactly
\* one identifier for every integer from START's number to END's number inclusive
\* and none outside, each of the year of START, formatted with the width of START's
\* number, with isFromRange = TRUE, rangeStart = START and rangeEnd = END; each of
\* these identifiers is in the returned list exactly once.
C6_SameYearRangeExpanded ==
    pc = "extracted" =>
        \A k \in 1..Len(issues) :
            MarkedIssue(issues[k]) =>
                LET t == issues[k].title
                    ranges == matchAllRange(t, 1)
                IN  \A r \in 1..Len(ranges) :
                        TokenYear(ranges[r][1]) = TokenYear(ranges[r][2]) =>
                            LET times == Cardinality({q \in 1..Len(ranges) :
                                                        ranges[q] = ranges[r]})
                                first == TokenNumber(ranges[r][1])
                                last == TokenNumber(ranges[r][2])
                            IN  /\ \A num \in first..last :
                                      /\ Cardinality(RangeRecords(issues[k].number,
                                                                  ranges[r], num)) = times
                                      /\ \A x \in RangeRecords(issues[k].number,
                                                               ranges[r], num) :
                                            /\ identifiers[x].year = TokenYear(ranges[r][1])
                                            /\ Len(identifiers[x].full) = 8
                                            /\ SubSeq(identifiers[x].full, 1, 5)
                                                  = SubSeq(ranges[r][1], 1, 5)
                                            /\ TokenNumber(identifiers[x].full) = num
                                      /\ Cardinality({u \in 1..Len(uniqueIdentifiers) :
                                            /\ uniqueIdentifiers[u].year
                                                  = TokenYear(ranges[r][1])
                                            /\ uniqueIdentifiers[u].number = num}) = 1
                                /\ \A x \in PushedBy(issues[k].number) :
                                      (/\ identifiers[x].isFromRange
                                       /\ identifiers[x].rangeStart = ranges[r][1]
                                       /\ identifiers[x].rangeEnd = ranges[r][2])
                                          => identifiers[x].number \in first..last

\* C6 witness: the labelled issue titled "2025-020/2025-031" alone yields the 12
\* identifiers 2025-020 .. 2025-031, all from the range
C6_Witness ==
    /\ pc = "extracted"
    /\ Len(issues) = 1
    /\ issues[1].title = titleRange
    /\ Len(uniqueIdentifiers) = 12
    /\ uniqueIdentifiers[1].full = <<"2", "0", "2", "5", "-", "0", "2", "0">>
    /\ uniqueIdentifiers[12].full = <<"2", "0", "2", "5", "-", "0", "3", "1">>
    /\ \A u \in 1..12 :
          /\ uniqueIdentifiers[u].isFromRange
          /\ uniqueIdentifiers[u].number = 19 + u
          /\ uniqueIdentifiers[u].rangeStart = <<"2", "0", "2", "5", "-", "0", "2", "0">>
          /\ uniqueIdentifiers[u].rangeEnd = <<"2", "0", "2", "5", "-", "0", "3", "1">>

\* token e lies inside a same-year range token of title t
InsideSameYearRange(t, e) ==
    \E r \in 1..Len(matchAllRange(t, 1)) :
        LET range == matchAllRange(t, 1)[r]
        IN  /\ TokenYear(range[1]) = TokenYear(range[2])
            /\ TokenYear(e) = TokenYear(range[1])
            /\ TokenNumber(e) >= TokenNumber(range[1])
            /\ TokenNumber(e) <= TokenNumber(range[2])

C8_OnlyMarkedIssuesContribute ==
    pc = "extracted" =>
        /\ \A k \in 1..Len(issues) :
              ~MarkedIssue(issues[k]) =>
                  /\ PushedBy(issues[k].number) = {}
                  /\ \A u \in 1..Len(uniqueIdentifiers) :
                        uniqueIdentifiers[u].issueNumber # issues[k].number
        /\ \A k \in 1..Len(issues) :
              (MarkedIssue(issues[k]) /\ matchAllId(issues[k].title, 1) # <<>>) =>
                  PushedBy(issues[k].number) # {}

\* C8 witness: an issue labelled "ID Assigned" contributes, while an issue with an
\* identifier in its title but without the label contributes nothing
C8_Witness ==
    /\ pc = "extracted"
    /\ Len(issues) = 2
    /\ MarkedIssue(issues[1])
    /\ ~MarkedIssue(issues[2])
    /\ matchAllId(issues[2].title, 1) # <<>>
    /\ PushedBy(1) # {}
    /\ PushedBy(2) = {}

(***************************************************************************)
(* makeRequest and the cache.                                              *)
(*                                                                         *)
(* A makeRequest invocation is a record of `calls`; its pc is "fetch"      *)
(* while it awaits fetch(url), "json" while it awaits response.json(),     *)
(* "returned" once it returned data and "thrown" once it threw.  Between   *)
(* two awaits other invocations run and the clock advances.                *)
(***************************************************************************)
\* GITHUB_API.baseURL
baseURL == "https://api.github.com"

\* GITHUB_API.cacheTimeout, in milliseconds
cacheTimeout == 5 * 60 * 1000

\* the endpoints the client requests: a page of issues, the labels
Endpoints ==
    {"/repos/codecheckers/register/issues?state=all&per_page=100&page=1",
     "/repos/codecheckers/register/labels?per_page=100"}

\* JSON.stringify(options) of the options the callers pass: none
OptionsGiven == {"{}"}

\* the values Date.now() takes: around one and two timeouts after the page load
ClockValues == {0, cacheTimeout - 1, cacheTimeout, 2 * cacheTimeout - 1}

\* `${url}:${JSON.stringify(options)}`
cacheKeyOf(endpoint, options) == <<baseURL, endpoint, ":", options>>

CacheKeys == {cacheKeyOf(e, o) : e \in Endpoints, o \in OptionsGiven}

\* mutant of cacheIsFresh: the comparison is <= instead of <
cacheIsFreshInclusive(cached, t) == t - cached.timestamp <= cacheTimeout

\* Date.now() - cached.timestamp < GITHUB_API.cacheTimeout
cacheIsFresh(cached, t) == t - cached.timestamp < cacheTimeout

\* mutant of cacheHit: the cache is never consulted
cacheHitNever(key) == FALSE

\* cached && Date.now() - cached.timestamp < GITHUB_API.cacheTimeout
cacheHit(key) == key \in DOMAIN cache /\ cacheIsFresh(cache[key], now)

\* this.cache.set(cacheKey, entry)
cacheSet(key, entry) ==
    [k \in DOMAIN cache \cup {key} |-> IF k = key THEN entry ELSE cache[k]]

InitCache ==
    /\ cache = <<>>
    /\ now = 0
    /\ server = 0
    /\ calls = <<>>
    /\ fetchCount = [k \in CacheKeys |-> 0]
    /\ issues = <<>>
    /\ pc = "start"
    /\ identifiers = <<>>
    /\ uniqueIdentifiers = <<>>
    /\ currentYear = productionMinYear
    /\ currentRepository = "production"
    /\ nextIdentifier = null
    /\ AppIdle

\* makeRequest(endpoint, options) up to its first await: a cache hit returns the
\* cached data, a miss starts fetch(url)
MakeRequest(endpoint, options) ==
    /\ Len(calls) < MaxCalls
    /\ LET key == cacheKeyOf(endpoint, options)
       IN  IF cacheHit(key)
           THEN /\ calls' = Append(calls,
                        [endpoint |-> endpoint, options |-> options, pc |-> "returned",
                         calledAt |-> now, fetched |-> FALSE,
                         data |-> cache[key].data, storedAt |-> cache[key].timestamp])
                /\ UNCHANGED fetchCount
           ELSE /\ calls' = Append(calls,
                        [endpoint |-> endpoint, options |-> options, pc |-> "fetch",
                         calledAt |-> now, fetched |-> TRUE,
                         data |-> null, storedAt |-> null])
                /\ fetchCount' = [fetchCount EXCEPT ![key] = @ + 1]
    /\ UNCHANGED <<cache, now, server>>
    /\ UNCHANGED extractVars
    /\ UNCHANGED appVars

\* the body of an ok response: what the endpoint serves at the current revision
responseBody(endpoint) == <<endpoint, server>>

\* fetch(url) resolves with an ok response carrying what the server serves
FetchResolvesOk(i) ==
    /\ i \in 1..Len(calls)
    /\ calls[i].pc = "fetch"
    /\ calls' = [calls EXCEPT ![i].pc = "json", ![i].data = responseBody(calls[i].endpoint)]
    /\ UNCHANGED <<cache, now, server, fetchCount>>
    /\ UNCHANGED extractVars
    /\ UNCHANGED appVars

\* fetch(url) rejects, or resolves with a response that is not ok: the error is thrown
FetchFails(i) ==
    /\ i \in 1..Len(calls)
    /\ calls[i].pc = "fetch"
    /\ calls' = [calls EXCEPT ![i].pc = "thrown"]
    /\ UNCHANGED <<cache, now, server, fetchCount>>
    /\ UNCHANGED extractVars
    /\ UNCHANGED appVars

\* response.json() resolves: the data is cached with the current time and returned
JsonResolves(i) ==
    /\ i \in 1..Len(calls)
    /\ calls[i].pc = "json"
    /\ cache' = cacheSet(cacheKeyOf(calls[i].endpoint, calls[i].options),
                         [data |-> calls[i].data, timestamp |-> now])
    /\ calls' = [calls EXCEPT ![i].pc = "returned", ![i].storedAt = now]
    /\ UNCHANGED <<now, server, fetchCount>>
    /\ UNCHANGED extractVars
    /\ UNCHANGED appVars

\* mutant of JsonRejects: the entry is written before the body is parsed
JsonRejectsAfterCaching(i) ==
    /\ i \in 1..Len(calls)
    /\ calls[i].pc = "json"
    /\ cache' = cacheSet(cacheKeyOf(calls[i].endpoint, calls[i].options),
                         [data |-> calls[i].data, timestamp |-> now])
    /\ calls' = [calls EXCEPT ![i].pc = "thrown", ![i].data = null]
    /\ UNCHANGED <<now, server, fetchCount>>
    /\ UNCHANGED extractVars
    /\ UNCHANGED appVars

\* response.json() rejects: the error is thrown
JsonRejects(i) ==
    /\ i \in 1..Len(calls)
    /\ calls[i].pc = "json"
    /\ calls' = [calls EXCEPT ![i].pc = "thrown", ![i].data = null]
    /\ UNCHANGED <<cache, now, server, fetchCount>>
    /\ UNCHANGED extractVars
    /\ UNCHANGED appVars

\* time passes
Tick ==
    /\ \E t \in ClockValues : t > now /\ now' = t
    /\ UNCHANGED <<cache, server, calls, fetchCount>>
    /\ UNCHANGED extractVars
    /\ UNCHANGED appVars

\* the remote register changes: every endpoint serves the new revision
ServerChanges ==
    /\ server < MaxRevision
    /\ server' = server + 1
    /\ UNCHANGED <<cache, now, calls, fetchCount>>
    /\ UNCHANGED extractVars
    /\ UNCHANGED appVars

NextCache ==
    \/ \E e \in Endpoints, o \in OptionsGiven : MakeRequest(e, o)
    \/ \E i \in 1..MaxCalls : FetchResolvesOk(i)
    \/ \E i \in 1..MaxCalls : FetchFails(i)
    \/ \E i \in 1..MaxCalls : JsonResolves(i)
    \/ \E i \in 1..MaxCalls : JsonRejects(i)
    \/ Tick
    \/ ServerChanges

SpecCache == InitCache /\ [][NextCache]_vars

(***************************************************************************)
(* Properties of makeRequest.                                              *)
(***************************************************************************)
KeyOfCall(c) == cacheKeyOf(c.endpoint, c.options)

C10_ExpiredEntryIsRefetched ==
    [][/\ Len(calls') = Len(calls) + 1 =>
            LET c == calls'[Len(calls')]
                key == KeyOfCall(c)
            IN  /\ (key \in DOMAIN cache /\ now - cache[key].timestamp >= cacheTimeout) =>
                      /\ c.pc = "fetch"
                      /\ fetchCount'[key] = fetchCount[key] + 1
                /\ c.pc = "returned" =>
                      /\ key \in DOMAIN cache
                      /\ now - cache[key].timestamp < cacheTimeout
                      /\ c.data = cache[key].data
       /\ \A i \in 1..Len(calls) :
            (i <= Len(calls') /\ calls[i].pc = "json" /\ calls'[i].pc = "returned") =>
                /\ KeyOfCall(calls[i]) \in DOMAIN cache'
                /\ cache'[KeyOfCall(calls[i])] = [data |-> calls[i].data, timestamp |-> now]
      ]_vars

\* C10 witness: a call made exactly one cache timeout after the entry was stored
\* fetched again, and its response and store time replaced the entry
C10_Witness ==
    \E a, b \in 1..Len(calls) :
        /\ KeyOfCall(calls[a]) = KeyOfCall(calls[b])
        /\ calls[a].pc = "returned"
        /\ calls[a].fetched
        /\ calls[b].calledAt - calls[a].storedAt = cacheTimeout
        /\ calls[b].fetched
        /\ calls[b].pc = "returned"
        /\ calls[b].data # calls[a].data
        /\ cache[KeyOfCall(calls[b])] = [data |-> calls[b].data, timestamp |-> calls[b].storedAt]

\* C11: when the fetch of a call fails (fetch rejects, the response is not ok, or
\* its body cannot be read) the call throws instead of returning, and the cache is
\* exactly as before: no entry is added or overwritten.
C11_FailureLeavesCacheUnchanged ==
    [][\A i \in 1..Len(calls) :
          (/\ i <= Len(calls')
           /\ calls[i].pc \in {"fetch", "json"}
           /\ calls'[i].pc \notin {"fetch", "json"}
           /\ calls'[i].pc # "returned")
              => /\ calls'[i].pc = "thrown"
                 /\ cache' = cache
      ]_vars

\* C11 witness: a call refetched an expired entry and failed; the cache still holds
\* the entry the earlier call stored
C11_Witness ==
    \E a, b \in 1..Len(calls) :
        /\ KeyOfCall(calls[a]) = KeyOfCall(calls[b])
        /\ calls[a].pc = "returned"
        /\ calls[a].fetched
        /\ calls[b].pc = "thrown"
        /\ calls[b].calledAt - calls[a].storedAt >= cacheTimeout
        /\ cache[KeyOfCall(calls[b])] = [data |-> calls[a].data, timestamp |-> calls[a].storedAt]
        /\ calls[a].data # responseBody(calls[a].endpoint)

(***************************************************************************)
(* getRepositoryIssues: the pagination loop.                               *)
(*                                                                         *)
(* `pagination` is the frame of the current invocation: the locals page,   *)
(* hasMore and issues, the pages requested and the bodies received so far  *)
(* in this invocation, and whether the awaited makeRequest went to the     *)
(* network (it missed the cache) or returns a cached body.  A step runs    *)
(* the loop from one await to the next.                                    *)
(***************************************************************************)
\* invocations of getRepositoryIssues in one behaviour
MaxRuns == 2

\* APP_CONFIG.maxIssuesPerPage
maxIssuesPerPage == 100

\* the page limit of getRepositoryIssues
maxPages == 50

\* `/repos/${owner}/${repo}/issues?state=all&per_page=${APP_CONFIG.maxIssuesPerPage}&page=${page}`
pageEndpoint(repo, page) ==
    <<"/repos/codecheckers/", repo, "/issues?state=all&per_page=", maxIssuesPerPage,
      "&page=", page>>

\* issue k of page `page` of a register: the issues are numbered in page order and
\* each carries the label 'ID Assigned' and, as its title, the identifier assigned to
\* it, which in the production register starts at 2025-028 and in the testing
\* register at 2025-001; the first issue of a page is closed, the second open
registerIssue(repo, page, k) ==
    LET n == 2 * (page - 1) + k
        assigned == IF repo = "register" THEN productionMinNumber - 1 + n ELSE n
    IN  MakeIssue(n, formatIdentifier(assigned, productionMinYear), <<labelIdAssignedMixed>>)
            @@ [state |-> IF k = 1 THEN "closed" ELSE "open"]

\* a non-empty page of a register: two issues
pageBody(repo, page) == <<registerIssue(repo, page, 1), registerIssue(repo, page, 2)>>

\* mutant of pushAll: the page is put in front of the issues collected so far
pushAllFront(arr, items) == items \o arr

\* issues.push(...pageIssues)
pushAll(arr, items) == arr \o items

\* mutant of reachedPageLimit: the limit is compared one page late
reachedPageLimitLate(page) == page > maxPages + 1

\* page > 50
reachedPageLimit(page) == page > maxPages

\* the loop from `const endpoint = ...` to `await this.makeRequest(endpoint)`:
\* makeRequest looks the page up in the cache and fetches it on a miss
requestPage(frame) ==
    [frame EXCEPT !.pc = "await",
                  !.requested = Append(frame.requested, frame.page),
                  !.fetching =
                      ~cacheHit(cacheKeyOf(pageEndpoint(frame.repo, frame.page), "{}"))]

\* the loop body after the await, for the body makeRequest returned, up to the
\* next await or the return
afterPage(frame, pageIssues) ==
    LET got == [frame EXCEPT !.received = Append(frame.received, pageIssues),
                             !.fetching = FALSE]
    IN  IF Len(pageIssues) = 0
        THEN [got EXCEPT !.hasMore = FALSE, !.pc = "done"]
        ELSE LET more == [got EXCEPT !.issues = pushAll(frame.issues, pageIssues),
                                     !.page = frame.page + 1]
             IN  IF reachedPageLimit(more.page)
                 THEN [more EXCEPT !.hasMore = FALSE, !.pc = "done"]
                 ELSE requestPage(more)

InitPages ==
    /\ AppIdle
    /\ CacheIdle
    /\ issues = <<>>
    /\ pc = "start"
    /\ identifiers = <<>>
    /\ uniqueIdentifiers = <<>>
    /\ currentYear = productionMinYear
    /\ currentRepository = "production"
    /\ nextIdentifier = null

\* getRepositoryIssues(owner, repo) is called and runs to its first await
GetRepositoryIssues ==
    /\ pagination.pc \in {"idle", "done", "failed"}
    /\ pagination.run < MaxRuns
    /\ pagination' = requestPage([paginationIdle EXCEPT !.run = pagination.run + 1])
    /\ UNCHANGED extractVars
    /\ UNCHANGED cacheVars
    /\ UNCHANGED stats
    /\ UNCHANGED loadVars

\* makeRequest fetched the page: the register answers with an empty page or with
\* the page, makeRequest caches the body and returns it
PageFetched(empty) ==
    /\ pagination.pc = "await"
    /\ pagination.fetching
    /\ LET pageIssues ==
              IF empty THEN <<>> ELSE pageBody(pagination.repo, pagination.page)
       IN  /\ cache' = cacheSet(cacheKeyOf(pageEndpoint(pagination.repo, pagination.page),
                                           "{}"),
                                [data |-> pageIssues, timestamp |-> now])
           /\ pagination' = afterPage(pagination, pageIssues)
    /\ UNCHANGED <<now, server, calls, fetchCount>>
    /\ UNCHANGED extractVars
    /\ UNCHANGED stats
    /\ UNCHANGED loadVars

\* makeRequest returns the cached body of the page
PageFromCache ==
    /\ pagination.pc = "await"
    /\ ~pagination.fetching
    /\ pagination' =
          afterPage(pagination,
                    cache[cacheKeyOf(pageEndpoint(pagination.repo, pagination.page), "{}")].data)
    /\ UNCHANGED extractVars
    /\ UNCHANGED cacheVars
    /\ UNCHANGED stats
    /\ UNCHANGED loadVars

\* makeRequest throws (the fetch failed): getRepositoryIssues rejects
PageRequestThrows ==
    /\ pagination.pc = "await"
    /\ pagination.fetching
    /\ pagination' = [pagination EXCEPT !.pc = "failed", !.fetching = FALSE]
    /\ UNCHANGED extractVars
    /\ UNCHANGED cacheVars
    /\ UNCHANGED stats
    /\ UNCHANGED loadVars

\* the awaited page request returns: it resolves or it throws
PageRequestReturns ==
    \/ \E empty \in BOOLEAN : PageFetched(empty)
    \/ PageFromCache
    \/ PageRequestThrows

NextPages ==
    \/ GetRepositoryIssues
    \/ PageRequestReturns

SpecPages == InitPages /\ [][NextPages]_vars

\* every page request returns
FairPages == SpecPages /\ WF_vars(PageRequestReturns)

\* the bodies of the non-empty pages 1..n of the register, in page order
FirstPages(n) == flatten([p \in 1..n |-> pageBody("register", p)])

\* C12: getRepositoryIssues terminates whenever each page request returns; an
\* invocation issues at most 50 page requests, and when pages 1 to 50 are all
\* non-empty it returns, without raising, after the 50th page, the concatenation
\* of those 50 pages in page order.
C12_TerminatesWithinPageLimit ==
    /\ [](Len(pagination.requested) <= 50)
    /\ []((/\ Len(pagination.received) = 50
           /\ pagination.received[50] # <<>>)
              => /\ pagination.pc = "done"
                 /\ pagination.issues = FirstPages(50))
    /\ (pagination.pc = "await") ~> (pagination.pc \in {"done", "failed"})

\* C12 witness: an invocation returned after fifty non-empty pages
C12_Witness ==
    /\ pagination.pc = "done"
    /\ Len(pagination.requested) = 50
    /\ \A j \in 1..50 : pagination.received[j] # <<>>
    /\ Len(pagination.issues) = 50 * 2

\* C13: pages are requested in strictly increasing order starting at 1; page N+1
\* is requested only after the response for page N was received and was not empty;
\* no page is requested after the first empty page; the invocation returns the
\* concatenation of all non-empty pages received, in page order.
C13_PagesInOrder ==
    LET requested == pagination.requested
        received == pagination.received
    IN  /\ requested # <<>> => requested[1] = 1
        /\ \A i \in 1..Len(requested) - 1 :
              /\ requested[i] < requested[i + 1]
              /\ requested[i + 1] = requested[i] + 1
              /\ i <= Len(received)
              /\ received[i] # <<>>
        /\ Len(received) <= Len(requested)
        /\ \A j \in 1..Len(received) :
              received[j] = <<>> => Len(requested) = j
        /\ pagination.pc = "done" =>
              /\ Len(received) = Len(requested)
              /\ pagination.issues =
                    flatten([j \in 1..Len(received) |-> received[j]])
              /\ \A j \in 1..Len(received) :
                    received[j] # <<>> => received[j] = pageBody("register", requested[j])
              /\ \A x, y \in 1..Len(pagination.issues) :
                    x < y => pagination.issues[x].number < pagination.issues[y].number

\* C13 witness: an invocation that read its first pages from the cache and fetched
\* the rest returned three non-empty pages after receiving the empty fourth
C13_Witness ==
    /\ pagination.pc = "done"
    /\ pagination.run = 2
    /\ Len(pagination.requested) = 4
    /\ pagination.received[4] = <<>>
    /\ pagination.issues = FirstPages(3)

\* the labelled issues, by position in the input, that push a record with `full` f
IssuesPushing(f) ==
    {k \in 1..Len(issues) :
        \E x \in PushedBy(issues[k].number) : identifiers[x].full = f}

\* C15: when the same `full` occurs in several labelled issues, the record kept
\* carries the number, title and URL of the earliest of them in input order.
C15_FirstOccurrenceKept ==
    pc = "extracted" =>
        \A u \in 1..Len(uniqueIdentifiers) :
            LET pushing == IssuesPushing(uniqueIdentifiers[u].full)
            IN  /\ pushing # {}
                /\ LET first == CHOOSE k \in pushing : \A j \in pushing : k <= j
                   IN  /\ uniqueIdentifiers[u].issueNumber = issues[first].number
                       /\ uniqueIdentifiers[u].issueTitle = issues[first].title
                       /\ uniqueIdentifiers[u].issueUrl = issues[first].html_url

\* C15 witness: two labelled issues with different titles push the same `full`, and
\* the record kept is the first issue's
C15_Witness ==
    /\ pc = "extracted"
    /\ Len(issues) = 2
    /\ issues[1].title # issues[2].title
    /\ \E u \in 1..Len(uniqueIdentifiers) :
          /\ IssuesPushing(uniqueIdentifiers[u].full) = {1, 2}
          /\ uniqueIdentifiers[u].issueNumber = issues[1].number
          /\ uniqueIdentifiers[u].issueTitle = issues[1].title

\* the `full` strings of a list of records
FullsOf(ids) == {ids[u].full : u \in 1..Len(ids)}

\* extractIdentifiers alone, applied to every issue list: the specification of the
\* properties that compare its result with its result on a rearranged list
SpecReorder == InitExtract /\ [][ExtractIdentifiers]_vars

\* C16: the set of `full` strings extractIdentifiers returns is the same for every
\* permutation of the input issue list.
C16_MembershipIgnoresOrder ==
    pc = "extracted" =>
        \A f \in Permutations(1..Len(issues)) :
            FullsOf(extractIdentifiers([k \in 1..Len(issues) |-> issues[f[k]]]))
                = FullsOf(uniqueIdentifiers)

\* C16 witness: two labelled issues with different identifiers, one of which occurs
\* in both, so that the order decides which issue a record is taken from
C16_Witness ==
    /\ pc = "extracted"
    /\ Len(issues) = 2
    /\ PushedBy(1) # {}
    /\ PushedBy(2) # {}
    /\ FullsOf([x \in 1..Cardinality(PushedBy(1)) |-> identifiers[x]])
          # FullsOf(uniqueIdentifiers)
    /\ \E u \in 1..Len(uniqueIdentifiers) :
          IssuesPushing(uniqueIdentifiers[u].full) = {1, 2}
    /\ extractIdentifiers(<<issues[2], issues[1]>>) # uniqueIdentifiers

\* C17: the list extractIdentifiers returns is sorted ascending by (year, number):
\* of two consecutive records the first has the smaller year, or the same year and
\* the smaller number.
C17_SortedByYearThenNumber ==
    pc = "extracted" =>
        \A u \in 1..Len(uniqueIdentifiers) - 1 :
            LET a == uniqueIdentifiers[u]
                b == uniqueIdentifiers[u + 1]
            IN  \/ a.year < b.year
                \/ a.year = b.year /\ a.number < b.number

\* C17 witness: records of two years were pushed out of order
C17_Witness ==
    /\ pc = "extracted"
    /\ \E x, y \in 1..Len(identifiers) :
          /\ x < y
          /\ identifiers[x].year > identifiers[y].year
    /\ \E x, y \in 1..Len(identifiers) :
          /\ x < y
          /\ identifiers[x].year = identifiers[y].year
          /\ identifiers[x].number > identifiers[y].number
    /\ Len(uniqueIdentifiers) >= 3

\* the decimal digits of n, at least `width` of them
DecimalDigits(n, width) ==
    LET places == IF n >= 1000 /\ width < 4 THEN 4 ELSE width
    IN  [p \in 1..places |-> DigitChar((n \div (10 ^ (places - p))) % 10)]

\* C18: the identifier string calculateNextIdentifier returns is the current year, a
\* hyphen, and the returned number left-padded with zeros to width 3 (number 5 in
\* 2025 gives "2025-005").
C18_IdentifierIsYearHyphenPaddedNumber ==
    pc = "calculated" =>
        /\ nextIdentifier.year = currentYear
        /\ nextIdentifier.identifier =
              DecimalDigits(currentYear, 4) \o <<"-">>
                  \o DecimalDigits(nextIdentifier.number, 3)
        /\ Len(nextIdentifier.identifier) >= 8

\* C18 witness: a one-digit number is padded with two zeros
C18_Witness ==
    /\ pc = "calculated"
    /\ currentYear = 2025
    /\ nextIdentifier.number = 5
    /\ nextIdentifier.identifier = <<"2", "0", "2", "5", "-", "0", "0", "5">>

\* the positions of the extracted identifiers of the current year
CurrentYearPositions ==
    {u \in 1..Len(uniqueIdentifiers) : uniqueIdentifiers[u].year = currentYear}

\* C19: highestIdentifier is a record of the input whose year is the current year and
\* whose number is the maximum among the records of the current year; it is null
\* exactly when the input has no record of the current year; the records of other
\* years influence neither highestIdentifier nor the returned number.
C19_HighestIsCurrentYearMaximum ==
    pc = "calculated" =>
        /\ (nextIdentifier.highestIdentifier = null) <=> (CurrentYearPositions = {})
        /\ CurrentYearPositions # {} =>
              \E u \in CurrentYearPositions :
                  /\ nextIdentifier.highestIdentifier = uniqueIdentifiers[u]
                  /\ \A v \in CurrentYearPositions :
                        uniqueIdentifiers[v].number <= uniqueIdentifiers[u].number
        /\ nextIdentifier.number =
              IF CurrentYearPositions = {}
              THEN ClaimedFloor
              ELSE LET M == SetMax({uniqueIdentifiers[u].number : u \in CurrentYearPositions})
                   IN  IF ClaimedFloor >= M + 1 THEN ClaimedFloor ELSE M + 1

\* C19 witness: another year has a larger number and a record with the number of the
\* current year's maximum, and the highest identifier is the current year's
C19_Witness ==
    /\ pc = "calculated"
    /\ nextIdentifier.highestIdentifier # null
    /\ nextIdentifier.highestIdentifier.year = currentYear
    /\ \E u \in 1..Len(uniqueIdentifiers) :
          /\ uniqueIdentifiers[u].year # currentYear
          /\ uniqueIdentifiers[u].number > nextIdentifier.highestIdentifier.number
    /\ \E u \in 1..Len(uniqueIdentifiers) :
          /\ uniqueIdentifiers[u].year # currentYear
          /\ uniqueIdentifiers[u].number = nextIdentifier.highestIdentifier.number

(***************************************************************************)
(* calculateStatistics and countIssuesWithLabel (assets/js/app.js).        *)
(*                                                                         *)
(* The returned record is modelled without lastAnalyzed, the time of the   *)
(* call.  A TypeError raised inside the try block of calculateStatistics   *)
(* is caught there and the default record is returned.                     *)
(***************************************************************************)
\* the label names calculateStatistics looks for
development == <<"d", "e", "v", "e", "l", "o", "p", "m", "e", "n", "t">>
institution == <<"i", "n", "s", "t", "i", "t", "u", "t", "i", "o", "n">>
journal == <<"j", "o", "u", "r", "n", "a", "l">>
community == <<"c", "o", "m", "m", "u", "n", "i", "t", "y">>
conference == <<"c", "o", "n", "f", "e", "r", "e", "n", "c", "e">>
workshop == <<"w", "o", "r", "k", "s", "h", "o", "p">>

\* s.includes(t): t occurs in s as a substring
includes(s, t) ==
    \E i \in 0..(Len(s) - Len(t)) : SubSeq(s, i + 1, i + Len(t)) = t

\* issue.labels.some(label => label.name.toLowerCase() === 'development') raises a
\* TypeError: the issue has no labels, or a label without a name is reached before
\* a label named development ends the search
developmentTestThrows(issue) ==
    \/ "labels" \notin DOMAIN issue
    \/ \E k \in 1..Len(issue.labels) :
          /\ "name" \notin DOMAIN issue.labels[k]
          /\ \A j \in 1..(k - 1) :
                /\ "name" \in DOMAIN issue.labels[j]
                /\ toLowerCase(issue.labels[j].name) # development

\* mutant of hasDevelopmentLabel: the label name is compared as it is written
hasDevelopmentLabelExactCase(issue) ==
    \E k \in 1..Len(issue.labels) :
        /\ "name" \in DOMAIN issue.labels[k]
        /\ issue.labels[k].name = development

\* issue.labels.some(label => label.name.toLowerCase() === 'development'), for an
\* issue on which the test does not throw
hasDevelopmentLabel(issue) ==
    \E k \in 1..Len(issue.labels) :
        /\ "name" \in DOMAIN issue.labels[k]
        /\ toLowerCase(issue.labels[k].name) = development

\* the test of the filter that drops the development issues
isNonDevelopment(issue) == ~hasDevelopmentLabel(issue)

\* issue.state === st; an issue without a state has state undefined
hasState(issue, st) == "state" \in DOMAIN issue /\ issue.state = st

\* countIssuesWithLabel(issues, labelNames): the issues with a named label whose
\* lower-cased name includes one of the lower-cased labelNames
countIssuesWithLabel(iss, labelNames) ==
    Len(SelectSeq(iss, LAMBDA issue :
        /\ "labels" \in DOMAIN issue
        /\ \E k \in 1..Len(issue.labels) :
              /\ "name" \in DOMAIN issue.labels[k]
              /\ \E targetLabel \in labelNames :
                    includes(toLowerCase(issue.labels[k].name), toLowerCase(targetLabel))))

\* the record the catch block returns
defaultStatistics ==
    [numberOfChecks |-> 0,
     ongoingChecks |-> 0,
     completedByCategory |->
        [institution |-> 0, journal |-> 0, community |-> 0,
         conferenceWorkshop |-> 0, needsCodechecker |-> 0]]

\* calculateStatistics(issues, identifiers) for an array of issues
calculateStatistics(iss, ids) ==
    IF \E k \in 1..Len(iss) : developmentTestThrows(iss[k])
    THEN defaultStatistics
    ELSE LET nonDevelopmentIssues == SelectSeq(iss, isNonDevelopment)
             completedIssues ==
                 SelectSeq(nonDevelopmentIssues, LAMBDA issue : hasState(issue, "closed"))
         IN  [numberOfChecks |-> Len(nonDevelopmentIssues),
              ongoingChecks |->
                 Len(SelectSeq(nonDevelopmentIssues, LAMBDA issue : hasState(issue, "open"))),
              completedByCategory |->
                 [institution |-> countIssuesWithLabel(completedIssues, {institution}),
                  journal |-> countIssuesWithLabel(completedIssues, {journal}),
                  community |-> countIssuesWithLabel(completedIssues, {community}),
                  conferenceWorkshop |->
                     countIssuesWithLabel(completedIssues, {conference, workshop}),
                  needsCodechecker |->
                     countIssuesWithLabel(completedIssues, {needsCodechecker})]]

\* labels of the register: 'Development', 'Institution', 'journal', 'community',
\* 'Conference paper', 'workshop', 'needs codechecker'
labelDevelopment == [name |-> <<"D", "e", "v", "e", "l", "o", "p", "m", "e", "n", "t">>]
labelInstitution == [name |-> <<"I", "n", "s", "t", "i", "t", "u", "t", "i", "o", "n">>]
labelJournal == [name |-> journal]
labelCommunity == [name |-> community]
labelConferencePaper == [name |-> <<"C", "o", "n", "f", "e", "r", "e", "n", "c", "e", " ", "p", "a", "p", "e", "r">>]
labelWorkshop == [name |-> workshop]
labelNeedsCodechecker == [name |-> needsCodechecker]

\* the label lists of the issues handed to calculateStatistics; noLabels: no labels
\* field
StatisticsLabelLists ==
    {<<labelInstitution, labelDevelopment>>,
     <<labelInstitution, labelNeedsCodechecker>>,
     <<labelJournal, labelCommunity>>,
     <<labelConferencePaper, labelWorkshop>>,
     <<labelCertificate>>,
     <<>>,
     <<labelNoName, labelInstitution>>,
     noLabels}

IssueStates == {"open", "closed"}

\* an issue as the API returns it, with its state
MakeStateIssue(n, l, st) == MakeIssue(n, titleNoMatch, l) @@ [state |-> st]

\* the issue list of a register of up to MaxIssues issues, before the statistics run
InitStatistics ==
    /\ \E n \in 0..MaxIssues :
          \E l \in [1..n -> StatisticsLabelLists], st \in [1..n -> IssueStates] :
              issues = [k \in 1..n |-> MakeStateIssue(k, l[k], st[k])]
    /\ pc = "start"
    /\ identifiers = <<>>
    /\ uniqueIdentifiers = <<>>
    /\ currentYear = productionMinYear
    /\ currentRepository = "production"
    /\ nextIdentifier = null
    /\ CacheIdle
    /\ AppIdle

\* loadNextIdentifier extracts the identifiers and calculates the statistics of the
\* issues it fetched
CalculateStatistics ==
    /\ pc = "start"
    /\ pc' = "counted"
    /\ identifiers' = collectIdentifiers(issues)
    /\ uniqueIdentifiers' = extractIdentifiers(issues)
    /\ stats' = calculateStatistics(issues, uniqueIdentifiers')
    /\ UNCHANGED <<issues, currentYear, currentRepository, nextIdentifier>>
    /\ UNCHANGED cacheVars
    /\ UNCHANGED pagination
    /\ UNCHANGED loadVars

SpecStatistics == InitStatistics /\ [][CalculateStatistics]_vars

\* every issue has a labels array whose labels all have a name
WellFormedIssues ==
    \A k \in 1..Len(issues) :
        /\ "labels" \in DOMAIN issues[k]
        /\ \A j \in 1..Len(issues[k].labels) : "name" \in DOMAIN issues[k].labels[j]

\* the issue carries a label whose name is "development" when case is ignored
IsDevelopmentIssue(issue) ==
    \E j \in 1..Len(issue.labels) :
        /\ Len(issue.labels[j].name) = 11
        /\ \A c \in 1..11 : lowerChar(issue.labels[j].name[c]) = development[c]

\* the positions of the issues that are not development issues
RemainingIssues == {k \in 1..Len(issues) : ~IsDevelopmentIssue(issues[k])}

\* C20: an issue with a label named "development", compared without regard to case,
\* is counted in none of numberOfChecks, ongoingChecks and completedByCategory,
\* whatever its other labels and its state; numberOfChecks is the number of the
\* remaining issues and ongoingChecks the number of those that are open.
C20_DevelopmentIssuesNotCounted ==
    (pc = "counted" /\ WellFormedIssues) =>
        /\ stats.numberOfChecks = Cardinality(RemainingIssues)
        /\ stats.ongoingChecks =
              Cardinality({k \in RemainingIssues : issues[k].state = "open"})
        /\ stats = calculateStatistics(
                       SelectSeq(issues, LAMBDA issue : ~IsDevelopmentIssue(issue)),
                       uniqueIdentifiers)
        /\ \A category \in DOMAIN stats.completedByCategory :
              stats.completedByCategory[category] <=
                  Cardinality({k \in RemainingIssues : issues[k].state = "closed"})

\* C20 witness: a closed issue labelled 'Institution' and 'Development' next to a
\* closed issue labelled 'Institution': one check, one completed institution check
C20_Witness ==
    /\ pc = "counted"
    /\ WellFormedIssues
    /\ Len(issues) = 2
    /\ issues[1].labels = <<labelInstitution, labelDevelopment>>
    /\ issues[1].state = "closed"
    /\ issues[2].labels = <<labelInstitution, labelNeedsCodechecker>>
    /\ issues[2].state = "closed"
    /\ stats.numberOfChecks = 1
    /\ stats.ongoingChecks = 0
    /\ stats.completedByCategory.institution = 1

(***************************************************************************)
(* loadNextIdentifier (assets/js/app.js) and the repository selection.     *)
(*                                                                         *)
(* An invocation that passed the isLoading guard is a record of `loads`:   *)
(* the repository it reads at its start, the frame of its                  *)
(* getRepositoryIssues chain, the state of its getRecentIssues chain, and  *)
(* its own position: "await" at the Promise.all, "shown" after             *)
(* showResults, "failed" after showError.  The continuation after the      *)
(* Promise.all runs in the step that settles it: no event is handled       *)
(* between the two.  The label panel of the page is not part of the model. *)
(***************************************************************************)
\* invocations of loadNextIdentifier that pass the guard in one behaviour
MaxLoads == 2

\* the non-empty pages a register holds at most
RegisterPages == 1

\* the limit loadNextIdentifier passes to getRecentIssues
recentLimit == 10

\* GITHUB_CONFIG[repository].repo
repoOf(repository) == IF repository = "production" THEN "register" ELSE "testing-dev-register"

\* the endpoint of getRecentIssues(owner, repo, limit): one page, most recently
\* updated first
recentEndpoint(repo) ==
    <<"/repos/codecheckers/", repo, "/issues?state=all&sort=updated&per_page=", recentLimit>>

\* mutant of alreadyLoading: the flag is not consulted
alreadyLoadingNever == FALSE

\* if (this.isLoading)
alreadyLoading == isLoading

\* LaunchPadUI.showLoading
showLoading(u) ==
    [u EXCEPT !.loading = TRUE, !.error = FALSE, !.results = FALSE, !.buttonDisabled = TRUE]

\* mutant of showError: the error display also forgets the previous result
showErrorForgetsResult(u) ==
    [u EXCEPT !.error = TRUE, !.loading = FALSE, !.results = FALSE, !.buttonDisabled = FALSE,
              !.currentIdentifier = null, !.currentStats = null]

\* LaunchPadUI.showError
showError(u) ==
    [u EXCEPT !.error = TRUE, !.loading = FALSE, !.results = FALSE, !.buttonDisabled = FALSE]

\* LaunchPadUI.showResults(identifierData, stats): 'id assigned' is selected
\* with the identifier
showResults(u, identifierData, st) ==
    [u EXCEPT !.currentIdentifier = identifierData, !.currentStats = st,
              !.selectedLabels =
                  IF \E k \in 1..Len(u.selectedLabels) : u.selectedLabels[k] = idAssigned
                  THEN u.selectedLabels
                  ELSE Append(u.selectedLabels, idAssigned),
              !.results = TRUE, !.loading = FALSE, !.buttonDisabled = FALSE,
              !.error = FALSE]

\* LaunchPadUI.updateNeedsCodecheckerLabel: 'needs codechecker' is selected
\* exactly while no codechecker is
updateNeedsCodecheckerLabel(u) ==
    LET hasCodecheckers == Len(u.selectedCodecheckers) > 0
        present == \E k \in 1..Len(u.selectedLabels) : u.selectedLabels[k] = needsCodechecker
    IN  IF hasCodecheckers /\ present
        THEN [u EXCEPT !.selectedLabels =
                          SelectSeq(u.selectedLabels, LAMBDA l : l # needsCodechecker)]
        ELSE IF ~hasCodecheckers /\ ~present
        THEN [u EXCEPT !.selectedLabels = Append(u.selectedLabels, needsCodechecker)]
        ELSE u

\* LaunchPadUI.clearCodecheckerSelection
clearCodecheckerSelection(u) ==
    updateNeedsCodecheckerLabel([u EXCEPT !.selectedCodecheckers = <<>>])

\* LaunchPadUI.resetResults
resetResults(u) ==
    LET cleared ==
            clearCodecheckerSelection(
                [u EXCEPT !.currentIdentifier = null, !.currentStats = null,
                          !.selectedLabels = <<labelCertificate.name, needsCodechecker>>])
    IN  [cleared EXCEPT !.results = FALSE, !.error = FALSE]

\* the invocation from `this.isLoading = true` to the await of Promise.all: both
\* chains are started
startLoad(repository) ==
    [repository |-> repository,
     pc |-> "await",
     all |-> requestPage([paginationIdle EXCEPT !.run = 1, !.repo = repoOf(repository)]),
     recent |-> [pc |-> "await",
                 fetching |-> ~cacheHit(cacheKeyOf(recentEndpoint(repoOf(repository)), "{}"))]]

\* Promise.all of the two chains of an invocation: pending, resolved or rejected
promiseAll(load) ==
    IF load.all.pc = "failed" \/ load.recent.pc = "rejected" THEN "rejected"
    ELSE IF load.all.pc = "done" /\ load.recent.pc = "resolved" THEN "resolved"
    ELSE "pending"

\* mutant of Settle: the flag is cleared on success only, as if the reset stood at
\* the end of the try block instead of in the finally block
SettleClearsOnSuccessOnly(i, load) ==
    IF loads[i].pc # "await" \/ promiseAll(load) = "pending"
    THEN /\ loads' = [loads EXCEPT ![i] = load]
         /\ UNCHANGED <<isLoading, ui>>
    ELSE IF promiseAll(load) = "resolved"
    THEN LET allIssues == load.all.issues
             ids == extractIdentifiers(allIssues)
         IN  /\ ui' = showResults(ui,
                                  calculateNextIdentifier(ids, currentYear, currentRepository),
                                  calculateStatistics(allIssues, ids))
             /\ isLoading' = FALSE
             /\ loads' = [loads EXCEPT ![i] = [load EXCEPT !.pc = "shown"]]
    ELSE /\ ui' = showError(ui)
         /\ isLoading' = isLoading
         /\ loads' = [loads EXCEPT ![i] = [load EXCEPT !.pc = "failed"]]

\* the step of invocation i in which one of its chains moved, giving `load`: when
\* the Promise.all settles in this step, the rest of loadNextIdentifier runs
Settle(i, load) ==
    IF loads[i].pc # "await" \/ promiseAll(load) = "pending"
    THEN /\ loads' = [loads EXCEPT ![i] = load]
         /\ UNCHANGED <<isLoading, ui>>
    ELSE IF promiseAll(load) = "resolved"
    THEN LET allIssues == load.all.issues
             ids == extractIdentifiers(allIssues)
         IN  /\ ui' = showResults(ui,
                                  calculateNextIdentifier(ids, currentYear, currentRepository),
                                  calculateStatistics(allIssues, ids))
             /\ isLoading' = FALSE
             /\ loads' = [loads EXCEPT ![i] = [load EXCEPT !.pc = "shown"]]
    ELSE /\ ui' = showError(ui)
         /\ isLoading' = FALSE
         /\ loads' = [loads EXCEPT ![i] = [load EXCEPT !.pc = "failed"]]

InitLoad ==
    /\ AppIdle
    /\ CacheIdle
    /\ issues = <<>>
    /\ pc = "start"
    /\ identifiers = <<>>
    /\ uniqueIdentifiers = <<>>
    /\ currentYear = productionMinYear
    /\ currentRepository = "production"
    /\ nextIdentifier = null

\* loadNextIdentifier() is called (the button, refresh, or the console): it returns
\* at the guard, or it runs to the await of Promise.all
LoadNextIdentifier ==
    /\ IF alreadyLoading
       THEN /\ lastCall' = "skipped"
            /\ UNCHANGED <<isLoading, ui, loads>>
       ELSE /\ Len(loads) < MaxLoads
            /\ isLoading' = TRUE
            /\ ui' = showLoading(ui)
            /\ loads' = Append(loads, startLoad(currentRepository))
            /\ lastCall' = "started"
    /\ UNCHANGED extractVars
    /\ UNCHANGED cacheVars
    /\ UNCHANGED <<pagination, stats, search>>

\* the repository radio buttons change the selection
ChangeRepository(repository) ==
    /\ repository # currentRepository
    /\ currentRepository' = repository
    /\ ui' = resetResults(ui)
    /\ UNCHANGED <<issues, pc, identifiers, uniqueIdentifiers, currentYear, nextIdentifier>>
    /\ UNCHANGED cacheVars
    /\ UNCHANGED <<pagination, stats, isLoading, loads, lastCall, search>>

\* what the actions of the chains leave unchanged
ChainFrame ==
    /\ UNCHANGED extractVars
    /\ UNCHANGED <<now, server, calls, fetchCount>>
    /\ UNCHANGED <<pagination, stats, lastCall, search>>

\* the page request of invocation i was fetched: the register answers with an empty
\* page or with the page, makeRequest caches the body, the pagination loop goes on
LoadPageFetched(i, empty) ==
    /\ i \in 1..Len(loads)
    /\ loads[i].all.pc = "await"
    /\ loads[i].all.fetching
    /\ empty \/ loads[i].all.page <= RegisterPages
    /\ LET pageIssues ==
              IF empty THEN <<>> ELSE pageBody(loads[i].all.repo, loads[i].all.page)
       IN  /\ cache' = cacheSet(cacheKeyOf(pageEndpoint(loads[i].all.repo, loads[i].all.page),
                                           "{}"),
                                [data |-> pageIssues, timestamp |-> now])
           /\ Settle(i, [loads[i] EXCEPT !.all = afterPage(loads[i].all, pageIssues)])
    /\ ChainFrame

\* the page request of invocation i returns the cached body
LoadPageFromCache(i) ==
    /\ i \in 1..Len(loads)
    /\ loads[i].all.pc = "await"
    /\ ~loads[i].all.fetching
    /\ Settle(i, [loads[i] EXCEPT !.all =
          afterPage(loads[i].all,
                    cache[cacheKeyOf(pageEndpoint(loads[i].all.repo, loads[i].all.page),
                                     "{}")].data)])
    /\ UNCHANGED cache
    /\ ChainFrame

\* the page request of invocation i throws: its getRepositoryIssues rejects
LoadPageThrows(i) ==
    /\ i \in 1..Len(loads)
    /\ loads[i].all.pc = "await"
    /\ loads[i].all.fetching
    /\ Settle(i, [loads[i] EXCEPT !.all.pc = "failed", !.all.fetching = FALSE])
    /\ UNCHANGED cache
    /\ ChainFrame

\* getRecentIssues of invocation i resolves, from the network or from the cache
RecentResolves(i) ==
    /\ i \in 1..Len(loads)
    /\ loads[i].recent.pc = "await"
    /\ cache' = IF loads[i].recent.fetching
                THEN cacheSet(cacheKeyOf(recentEndpoint(loads[i].all.repo), "{}"),
                              [data |-> pageBody(loads[i].all.repo, 1), timestamp |-> now])
                ELSE cache
    /\ Settle(i, [loads[i] EXCEPT !.recent = [pc |-> "resolved", fetching |-> FALSE]])
    /\ ChainFrame

\* getRecentIssues of invocation i rejects: its request failed
RecentRejects(i) ==
    /\ i \in 1..Len(loads)
    /\ loads[i].recent.pc = "await"
    /\ loads[i].recent.fetching
    /\ Settle(i, [loads[i] EXCEPT !.recent = [pc |-> "rejected", fetching |-> FALSE]])
    /\ UNCHANGED cache
    /\ ChainFrame

NextLoad ==
    \/ LoadNextIdentifier
    \/ \E repository \in Repositories : ChangeRepository(repository)
    \/ \E i \in 1..MaxLoads, empty \in BOOLEAN : LoadPageFetched(i, empty)
    \/ \E i \in 1..MaxLoads : LoadPageFromCache(i)
    \/ \E i \in 1..MaxLoads : LoadPageThrows(i)
    \/ \E i \in 1..MaxLoads : RecentResolves(i)
    \/ \E i \in 1..MaxLoads : RecentRejects(i)

SpecLoad == InitLoad /\ [][NextLoad]_vars

\* C14: while a loadNextIdentifier invocation is in flight (isLoading is true) no
\* further invocation passes the guard, and a call returns at once: it starts no
\* fetch, changes neither the interface nor the results nor the flag, and is not
\* kept for later: an invocation starts only in the step of a call made while
\* isLoading is false.
C14_CallsWhileLoadingAreSkipped ==
    [][/\ isLoading =>
             /\ Len(loads') = Len(loads)
             /\ lastCall' # lastCall =>
                   /\ lastCall' = "skipped"
                   /\ UNCHANGED <<isLoading, ui, loads, cache, fetchCount, calls,
                                  currentRepository, pagination>>
       /\ Len(loads') # Len(loads) =>
             /\ ~isLoading
             /\ lastCall' = "started"
             /\ Len(loads') = Len(loads) + 1
      ]_vars

\* C14 witness: a call was skipped while the first invocation awaits its first page
\* and its recent issues, and the first invocation is still the only one
C14_Witness ==
    /\ isLoading
    /\ lastCall = "skipped"
    /\ Len(loads) = 1
    /\ loads[1].pc = "await"
    /\ loads[1].all.requested = <<1>>
    /\ loads[1].recent.pc = "await"
    /\ ui.loading
    /\ ui.currentIdentifier = null

(***************************************************************************)
(* calculateStatistics called with any value as its issues argument.       *)
(***************************************************************************)
\* null and undefined
jsNull == <<[js |-> "null"]>>
jsUndefined == <<[js |-> "undefined"]>>

\* values that are not arrays: null, undefined, and an object without length
NonArrays == {jsNull, jsUndefined, <<[js |-> "object"]>>}

\* what a call leaves when it throws instead of returning
thrownTypeError == [thrown |-> "TypeError"]

\* calculateStatistics(issues, identifiers) for any issues argument: the first
\* statement reads issues.length outside the try block, which throws on null and
\* undefined; issues.filter, inside the try block, throws on every other value
\* that is not an array, and the catch block returns the default record
callCalculateStatistics(arg, ids) ==
    IF arg \in {jsNull, jsUndefined} THEN thrownTypeError
    ELSE IF arg \in NonArrays THEN defaultStatistics
    ELSE calculateStatistics(arg, ids)

\* the argument is an array of up to MaxIssues issues, or it is not an array
InitStatisticsInput ==
    /\ \/ \E n \in 0..MaxIssues :
             \E l \in [1..n -> StatisticsLabelLists], st \in [1..n -> IssueStates] :
                 issues = [k \in 1..n |-> MakeStateIssue(k, l[k], st[k])]
       \/ issues \in NonArrays
    /\ pc = "start"
    /\ identifiers = <<>>
    /\ uniqueIdentifiers = <<>>
    /\ currentYear = productionMinYear
    /\ currentRepository = "production"
    /\ nextIdentifier = null
    /\ CacheIdle
    /\ AppIdle

\* calculateStatistics(issues, []) is called
CallCalculateStatistics ==
    /\ pc = "start"
    /\ pc' = "counted"
    /\ stats' = callCalculateStatistics(issues, <<>>)
    /\ UNCHANGED <<issues, identifiers, uniqueIdentifiers, currentYear, currentRepository,
                   nextIdentifier>>
    /\ UNCHANGED cacheVars
    /\ UNCHANGED pagination
    /\ UNCHANGED loadVars

SpecStatisticsInput == InitStatisticsInput /\ [][CallCalculateStatistics]_vars

\* the issues argument is malformed: not an array, or an array with an issue that
\* has no labels field
MalformedInput ==
    \/ issues \in NonArrays
    \/ \E k \in 1..Len(issues) : "labels" \notin DOMAIN issues[k]

\* C21: on malformed input (an issue without a labels field, or an issues argument
\* that is not an array, null and undefined included) calculateStatistics does not
\* throw and returns numberOfChecks = 0, ongoingChecks = 0 and every
\* completedByCategory count = 0.
C21_MalformedInputGivesZeros ==
    (pc = "counted" /\ MalformedInput) =>
        /\ stats # thrownTypeError
        /\ stats.numberOfChecks = 0
        /\ stats.ongoingChecks = 0
        /\ \A category \in DOMAIN stats.completedByCategory :
              stats.completedByCategory[category] = 0

(***************************************************************************)
(* loadNextIdentifier under fair scheduling: every request that was sent   *)
(* is answered or fails, so each chain of an invocation takes its steps.   *)
(***************************************************************************)
\* a step of one of the two chains of invocation i
ChainStep(i) ==
    \/ \E empty \in BOOLEAN : LoadPageFetched(i, empty)
    \/ LoadPageFromCache(i)
    \/ LoadPageThrows(i)
    \/ RecentResolves(i)
    \/ RecentRejects(i)

\* a chain of invocation i has a request outstanding: the state predicate that
\* ENABLED <<ChainStep(i)>>_vars comes to
ChainPending(i) ==
    /\ i <= Len(loads)
    /\ loads[i].all.pc = "await" \/ loads[i].recent.pc = "await"

\* weak fairness of the chain steps of every invocation, WF_vars(ChainStep(i)),
\* written out with ChainPending(i) for the ENABLED predicate
FairLoad ==
    SpecLoad /\ \A i \in 1..MaxLoads :
                    []<>(~ChainPending(i)) \/ []<><<ChainStep(i)>>_vars

\* C22: every loadNextIdentifier invocation that set the in-flight flag (it is at
\* its await) eventually leaves the await with the flag cleared, whether it showed
\* results or failed; the flag is never left set for good.
C22_FlagEventuallyCleared ==
    \A i \in 1..MaxLoads :
        (i <= Len(loads) /\ loads[i].pc = "await" /\ isLoading)
            ~> (i <= Len(loads) /\ loads[i].pc \in {"shown", "failed"} /\ ~isLoading)

\* C22 witness: the first invocation failed while its pagination was still running,
\* the flag is clear again and a second invocation has passed the guard
C22_Witness ==
    /\ Len(loads) = 2
    /\ loads[1].pc = "failed"
    /\ loads[2].pc = "await"
    /\ isLoading
    /\ lastCall = "started"

\* invocation i exists after the step and the step is one of its own: it was started
\* in the step, or one of its chains moved
StepOfLoad(i) ==
    /\ i <= Len(loads')
    /\ i > Len(loads) \/ loads'[i] # loads[i]

\* C23: when a fetch of a loadNextIdentifier invocation fails, showResults is not
\* invoked for it (an invocation shows results only when both of its chains
\* succeeded, and a failed invocation stays failed), none of its steps changes
\* ui.currentIdentifier or ui.currentStats, and the step in which it fails shows
\* the error message, once.
C23_FailedLoadShowsNoResult ==
    [][\A i \in 1..MaxLoads :
          StepOfLoad(i) =>
             /\ loads'[i].pc = "shown" =>
                   /\ loads'[i].all.pc = "done"
                   /\ loads'[i].recent.pc = "resolved"
                   /\ loads[i].pc = "await"
             /\ (loads'[i].pc # "shown" \/ loads'[i].pc = loads[i].pc) =>
                   /\ ui'.currentIdentifier = ui.currentIdentifier
                   /\ ui'.currentStats = ui.currentStats
             /\ (loads'[i].all.pc = "failed" \/ loads'[i].recent.pc = "rejected") =>
                   /\ loads'[i].pc = "failed"
                   /\ IF loads[i].pc = "await"
                      THEN ui'.error /\ ~ui'.results /\ ~ui'.loading
                      ELSE ui' = ui
      ]_vars

\* C23 witness: the first invocation showed a result, the second one failed: the
\* error is displayed and the result of the first invocation is still held
C23_Witness ==
    /\ Len(loads) = 2
    /\ loads[1].pc = "shown"
    /\ loads[2].pc = "failed"
    /\ ui.error
    /\ ~ui.results
    /\ ui.currentIdentifier # null
    /\ ui.currentStats # null

(***************************************************************************)
(* The roster search field: onCodecheckerSearch debounces the input events *)
(* with a timer of the browser.                                            *)
(***************************************************************************)
\* the delay handed to setTimeout, in milliseconds
debounceDelay == 300

\* the clock advances in steps of SearchTick milliseconds up to MaxSearchClock;
\* at most MaxInputs input events are typed
SearchTick == 100
MaxSearchClock == 700
MaxInputs == 3

\* e.target.value of the input events
Queries == {<<"a">>, <<"a", "b">>, <<"a", "b", "c">>}

\* mutant of clearTimeout: the previous timer is not cancelled
clearTimeoutNever(timers, handle) == timers

\* clearTimeout(handle): the timer with that handle, if it is still set, is removed
clearTimeout(timers, handle) == {t \in timers : t.id # handle}

\* LaunchPadUI.onCodecheckerSearch(query): handles are positive, so a handle that
\* was stored is truthy
onCodecheckerSearch(s, query) ==
    LET cleared == IF s.searchTimeout # null
                   THEN clearTimeout(s.timers, s.searchTimeout)
                   ELSE s.timers
        handle == <<s.timerCount + 1>>
    IN  [s EXCEPT !.timers = cleared \cup {[id |-> handle, query |-> query,
                                            due |-> s.clock + debounceDelay]},
                  !.timerCount = s.timerCount + 1,
                  !.searchTimeout = handle]

\* LaunchPadUI.performCodecheckerSearch(query): a query shorter than two
\* characters hides the dropdown, any other one is searched in the roster
performCodecheckerSearch(s, query) ==
    [s EXCEPT !.performed = Append(s.performed,
                                   [query |-> query, at |-> s.clock,
                                    searched |-> Len(query) >= 2])]

\* an input event of the search field: the handler runs onCodecheckerSearch
CodecheckerSearchInput(query) ==
    /\ Len(search.inputs) < MaxInputs
    /\ search' = onCodecheckerSearch(
                    [search EXCEPT !.inputs = Append(search.inputs,
                                                     [query |-> query, at |-> search.clock])],
                    query)
    /\ UNCHANGED extractVars
    /\ UNCHANGED cacheVars
    /\ UNCHANGED <<pagination, stats, isLoading, ui, loads, lastCall>>

\* a timer that is due fires: its callback runs performCodecheckerSearch(query)
SearchTimerFires ==
    /\ \E t \in search.timers :
          /\ t.due <= search.clock
          /\ search' = performCodecheckerSearch(
                          [search EXCEPT !.timers = search.timers \ {t}], t.query)
    /\ UNCHANGED extractVars
    /\ UNCHANGED cacheVars
    /\ UNCHANGED <<pagination, stats, isLoading, ui, loads, lastCall>>

\* time passes while no timer is due
SearchClockTicks ==
    /\ search.clock + SearchTick <= MaxSearchClock
    /\ \A t \in search.timers : t.due > search.clock
    /\ search' = [search EXCEPT !.clock = search.clock + SearchTick]
    /\ UNCHANGED extractVars
    /\ UNCHANGED cacheVars
    /\ UNCHANGED <<pagination, stats, isLoading, ui, loads, lastCall>>

NextSearch ==
    \/ \E query \in Queries : CodecheckerSearchInput(query)
    \/ SearchTimerFires
    \/ SearchClockTicks

SpecSearch == InitLoad /\ [][NextSearch]_vars

\* the input event that closes a burst so far: the latest one
LatestInput == search.inputs[Len(search.inputs)]

\* C24: at most one search timer is pending, the one this.searchTimeout names, set
\* by the latest input event (so every input cancelled the timer before it); every
\* search that ran used the query of the latest input event before it, after a
\* quiet period of debounceDelay, so input events less than debounceDelay apart
\* cause one search, with the query of the last of them; between two searches
\* there is an input event.
C24_OneSearchPerBurst ==
    /\ Cardinality(search.timers) <= 1
    /\ \A t \in search.timers :
          /\ t.id = search.searchTimeout
          /\ t.query = LatestInput.query
          /\ t.due = LatestInput.at + debounceDelay
    /\ \A j \in 1..Len(search.performed) :
          /\ \E k \in 1..Len(search.inputs) :
                /\ search.inputs[k].query = search.performed[j].query
                /\ search.inputs[k].at + debounceDelay <= search.performed[j].at
                /\ k < Len(search.inputs) =>
                      /\ search.inputs[k + 1].at >= search.performed[j].at
                      /\ search.inputs[k + 1].at - search.inputs[k].at >= debounceDelay
          /\ j > 1 =>
                \E k \in 1..Len(search.inputs) :
                    /\ search.performed[j - 1].at <= search.inputs[k].at
                    /\ search.inputs[k].at + debounceDelay <= search.performed[j].at
    /\ (search.inputs # <<>> /\ search.timers = {}) =>
          /\ search.performed # <<>>
          /\ search.performed[Len(search.performed)].query = LatestInput.query
          /\ search.performed[Len(search.performed)].at >= LatestInput.at + debounceDelay

\* C24 witness: three input events less than debounceDelay apart, with different
\* queries, and one search ran, with the query of the last of them
C24_Witness ==
    /\ Len(search.inputs) = 3
    /\ search.inputs[2].at - search.inputs[1].at < debounceDelay
    /\ search.inputs[2].at > search.inputs[1].at
    /\ search.inputs[3].at - search.inputs[2].at < debounceDelay
    /\ search.inputs[3].at > search.inputs[2].at
    /\ search.inputs[1].query # search.inputs[3].query
    /\ search.inputs[2].query # search.inputs[3].query
    /\ Len(search.performed) = 1
    /\ search.performed[1].query = search.inputs[3].query
    /\ search.timers = {}

\* C25: the in-flight flag is cleared only after every fetch chain the invocation
\* started (the pagination and the recent-issues fetch) has settled: an invocation
\* that left its await has no chain still awaiting a response; consequently the
\* pagination loops of two invocations are never in progress together, and no two
\* of them have a request for the same cache key in flight.
C25_FlagClearedAfterChainsSettle ==
    /\ \A i \in 1..Len(loads) :
          loads[i].pc # "await" =>
              /\ loads[i].all.pc # "await"
              /\ loads[i].recent.pc # "await"
    /\ \A i, j \in 1..Len(loads) :
          i < j =>
              /\ ~(loads[i].all.pc = "await" /\ loads[j].all.pc = "await")
              /\ ~(/\ loads[i].all.pc = "await" /\ loads[i].all.fetching
                   /\ loads[j].all.pc = "await" /\ loads[j].all.fetching
                   /\ pageEndpoint(loads[i].all.repo, loads[i].all.page)
                         = pageEndpoint(loads[j].all.repo, loads[j].all.page))

\* C26: whenever ui.currentIdentifier is not null it is the result of an invocation
\* that was started for the repository selected now: it was computed from the
\* issues of that repository and with that repository's floor. After a change of
\* repository the field therefore stays null until a load started for the new
\* selection completes.
C26_IdentifierOfSelectedRepository ==
    ui.currentIdentifier # null =>
        \E i \in 1..Len(loads) :
            /\ loads[i].pc = "shown"
            /\ loads[i].repository = currentRepository
            /\ loads[i].all.repo = repoOf(currentRepository)
            /\ ui.currentIdentifier =
                  calculateNextIdentifier(extractIdentifiers(loads[i].all.issues),
                                          currentYear, currentRepository)

(***************************************************************************)
(* The identifier handed out comes back: the issue created with the       *)
(* generated title joins the register and the next identifier is computed  *)
(* again.                                                                  *)
(***************************************************************************)
\* the largest number the three digits of YYYY-NNN can write
maxPaddedNumber == 999

\* the register holds at most MaxRegister issues
MaxRegister == 2

\* the keys of ISSUE_TYPES
IssueTypes == {"certificate"}

\* '[Author Names]'
authorNamesPlaceholder ==
    <<"[", "A", "u", "t", "h", "o", "r", " ", "N", "a", "m", "e", "s", "]">>

\* ' | '
titleSeparator == <<" ", "|", " ">>

\* the author names typed into the form: none, or a name with a space before it
AuthorNames == {<<>>, <<" ", "D", "o", "e">>}

\* s.trim(), for the blanks of the model
RECURSIVE trim(_)
trim(s) ==
    IF s = <<>> THEN s
    ELSE IF Head(s) = " " THEN trim(Tail(s))
    ELSE IF s[Len(s)] = " " THEN trim(SubSeq(s, 1, Len(s) - 1))
    ELSE s

\* generateIssueTitle(type, identifier, authorNames)
generateIssueTitle(type, identifier, authorNames) ==
    IF type \notin IssueTypes THEN [thrown |-> "Error"]
    ELSE IF trim(authorNames) # <<>>
         THEN trim(authorNames) \o titleSeparator \o identifier
         ELSE authorNamesPlaceholder \o titleSeparator \o identifier

\* the labels of an issue created from the launch pad once its identifier is set
assignedLabels == <<labelCertificate, [name |-> idAssigned]>>

\* a register whose current-year maximum is any of 0..maxPaddedNumber: empty, or
\* one issue created with that identifier
InitAssign ==
    /\ currentYear = productionMinYear
    /\ currentRepository \in Repositories
    /\ \E m \in 0..maxPaddedNumber :
          issues = IF m = 0 THEN <<>>
                   ELSE <<MakeIssue(1,
                                    generateIssueTitle("certificate",
                                                       formatIdentifier(m, currentYear),
                                                       <<>>),
                                    assignedLabels)>>
    /\ pc = "start"
    /\ identifiers = <<>>
    /\ uniqueIdentifiers = <<>>
    /\ nextIdentifier = null
    /\ CacheIdle
    /\ AppIdle

\* the issue is created with the generated title and the 'id assigned' label, and
\* the register is read again
IssueCreated(authorNames) ==
    /\ pc = "calculated"
    /\ Len(issues) < MaxRegister
    /\ issues' = Append(issues,
                        MakeIssue(Len(issues) + 1,
                                  generateIssueTitle("certificate",
                                                     nextIdentifier.identifier,
                                                     authorNames),
                                  assignedLabels))
    /\ pc' = "start"
    /\ UNCHANGED <<identifiers, uniqueIdentifiers, currentYear, currentRepository,
                   nextIdentifier>>
    /\ UNCHANGED cacheVars
    /\ UNCHANGED appVars

NextAssign ==
    \/ ExtractIdentifiers
    \/ CalculateNextIdentifier
    \/ \E authorNames \in AuthorNames : IssueCreated(authorNames)

SpecAssign == InitAssign /\ [][NextAssign]_vars

\* C27: once the register has gained the 'id assigned' issue whose title is the
\* generated title with the identifier computed before, computing again gives a
\* strictly greater number and another identifier, for every current-year maximum
\* of 0..maxPaddedNumber the register started with.
C27_NextIdentifierStrictlyGreater ==
    [][(pc = "extracted" /\ pc' = "calculated" /\ nextIdentifier # null) =>
          /\ nextIdentifier'.number > nextIdentifier.number
          /\ nextIdentifier'.identifier # nextIdentifier.identifier
      ]_vars

\* C28: isFirstOfYear of the result is true exactly when the identifiers handed to
\* calculateNextIdentifier contain none of the current year.
C28_FirstOfYearIffNoneThisYear ==
    pc = "calculated" =>
        (nextIdentifier.isFirstOfYear
            <=> ~\E k \in 1..Len(uniqueIdentifiers) : uniqueIdentifiers[k].year = currentYear)

\* the range matches of a title that extractIdentifiers expanded: the same-year ones
ExpandedRanges(title) ==
    LET rangeMatches == matchAllRange(title, 1)
    IN  {r \in 1..Len(rangeMatches) :
            parseInt(splitId(rangeMatches[r][1])[1]) = parseInt(splitId(rangeMatches[r][2])[1])}

\* fullId lies inside range match r of the title: the year of its start, and a
\* number from its start to its end
InsideRange(fullId, title, r) ==
    LET match == matchAllRange(title, 1)[r]
    IN  /\ parseInt(splitId(fullId)[1]) = parseInt(splitId(match[1])[1])
        /\ parseInt(splitId(fullId)[2]) >= parseInt(splitId(match[1])[2])
        /\ parseInt(splitId(fullId)[2]) <= parseInt(splitId(match[2])[2])

\* C29: a standalone YYYY-NNN token in the title of a labelled issue that is not an
\* endpoint of a range token is emitted unless it lies inside a range that was
\* expanded (a same-year range); a cross-year range, which is discarded, never
\* makes it disappear.
C29_StandaloneTokenEmitted ==
    pc = "extracted" =>
        \A i \in 1..Len(issues) :
            (hasIdAssignedLabel(issues[i]) /\ "title" \in DOMAIN issues[i]) =>
                LET title == issues[i].title
                    rangeMatches == matchAllRange(title, 1)
                    matches == matchAllId(title, 1)
                IN  \A m \in 1..Len(matches) :
                        (/\ \A r \in 1..Len(rangeMatches) :
                               matches[m] # rangeMatches[r][1] /\ matches[m] # rangeMatches[r][2]
                         /\ \A r \in ExpandedRanges(title) : ~InsideRange(matches[m], title, r))
                        => \E k \in 1..Len(uniqueIdentifiers) :
                              uniqueIdentifiers[k].full = matches[m]

(***************************************************************************)
(* The label selection of the issue form: showResults, the label buttons,  *)
(* the codechecker selection and the repository change.                    *)
(***************************************************************************)
\* the names of the labels loaded from the repository
AvailableLabels == {labelCertificate.name, idAssigned, needsCodechecker, journal, community}

\* the roster entries the dropdown offers
Codecheckers == {[handle |-> "alice"], [handle |-> "bob"]}

\* arr.includes(x)
arrayIncludes(arr, x) == \E k \in 1..Len(arr) : arr[k] = x

\* mutant of toggleLabel: every selected label can be removed
toggleLabelUnguarded(u, labelName) ==
    IF arrayIncludes(u.selectedLabels, labelName)
    THEN [u EXCEPT !.selectedLabels = SelectSeq(u.selectedLabels, LAMBDA l : l # labelName)]
    ELSE [u EXCEPT !.selectedLabels = Append(u.selectedLabels, labelName)]

\* LaunchPadUI.toggleLabel(labelName): the array holds a name at most once, so
\* splice(index, 1) leaves the array without it
toggleLabel(u, labelName) ==
    IF arrayIncludes(u.selectedLabels, labelName)
    THEN IF labelName # labelCertificate.name /\ labelName # idAssigned
         THEN [u EXCEPT !.selectedLabels =
                           SelectSeq(u.selectedLabels, LAMBDA l : l # labelName)]
         ELSE u
    ELSE [u EXCEPT !.selectedLabels = Append(u.selectedLabels, labelName)]

\* LaunchPadUI.selectCodechecker(codechecker)
selectCodechecker(u, codechecker) ==
    IF arrayIncludes(u.selectedCodecheckers, codechecker)
    THEN u
    ELSE updateNeedsCodecheckerLabel(
            [u EXCEPT !.selectedCodecheckers = Append(u.selectedCodecheckers, codechecker)])

\* LaunchPadUI.removeCodechecker(handle)
removeCodechecker(u, handle) ==
    updateNeedsCodecheckerLabel(
        [u EXCEPT !.selectedCodecheckers =
                     SelectSeq(u.selectedCodecheckers, LAMBDA c : c.handle # handle)])

\* this.ui.showResults(nextIdentifier, stats) at the end of a successful load
ShowResults ==
    /\ ui' = showResults(ui,
                         calculateNextIdentifier(<<>>, currentYear, currentRepository),
                         defaultStatistics)
    /\ UNCHANGED extractVars
    /\ UNCHANGED cacheVars
    /\ UNCHANGED <<pagination, stats, isLoading, loads, lastCall, search>>

\* a label button is clicked: a button that is managed automatically is disabled
ToggleLabel(labelName) ==
    /\ ~(labelName = needsCodechecker /\ Len(ui.selectedCodecheckers) > 0)
    /\ ui' = toggleLabel(ui, labelName)
    /\ UNCHANGED extractVars
    /\ UNCHANGED cacheVars
    /\ UNCHANGED <<pagination, stats, isLoading, loads, lastCall, search>>

\* an entry of the dropdown is chosen
SelectCodechecker(codechecker) ==
    /\ ui' = selectCodechecker(ui, codechecker)
    /\ UNCHANGED extractVars
    /\ UNCHANGED cacheVars
    /\ UNCHANGED <<pagination, stats, isLoading, loads, lastCall, search>>

\* the remove button of a selected codechecker is clicked
RemoveCodechecker(codechecker) ==
    /\ arrayIncludes(ui.selectedCodecheckers, codechecker)
    /\ ui' = removeCodechecker(ui, codechecker.handle)
    /\ UNCHANGED extractVars
    /\ UNCHANGED cacheVars
    /\ UNCHANGED <<pagination, stats, isLoading, loads, lastCall, search>>

NextLabels ==
    \/ ShowResults
    \/ \E labelName \in AvailableLabels : ToggleLabel(labelName)
    \/ \E codechecker \in Codecheckers : SelectCodechecker(codechecker)
    \/ \E codechecker \in Codecheckers : RemoveCodechecker(codechecker)
    \/ \E repository \in Repositories : ChangeRepository(repository)

SpecLabels == InitLoad /\ [][NextLabels]_vars

\* C30: after any sequence of showResults, toggleLabel, codechecker selection and
\* removal and resetResults, selectedLabels contains 'certificate', and it contains
\* 'id assigned' whenever currentIdentifier is not null: no toggleLabel removes
\* either of the two.
C30_EssentialLabelsSelected ==
    /\ arrayIncludes(ui.selectedLabels, labelCertificate.name)
    /\ ui.currentIdentifier # null => arrayIncludes(ui.selectedLabels, idAssigned)

\* C30 witness: an identifier is shown, a codechecker is selected so that 'needs
\* codechecker' is gone, and a label was added by its button
C30_Witness ==
    /\ ui.currentIdentifier # null
    /\ Len(ui.selectedCodecheckers) = 1
    /\ ~arrayIncludes(ui.selectedLabels, needsCodechecker)
    /\ arrayIncludes(ui.selectedLabels, journal)
    /\ arrayIncludes(ui.selectedLabels, idAssigned)

====
